---- MODULE Spec2Model ----
(***************************************************************************)
(* Model of lib/job-assets/dcaudit/auditcounts.js: two sorted inputs are   *)
(* parsed into <count, key> records by SplitStream, joined by JoinStream   *)
(* and classified by AuditStream; and of the header handling of            *)
(* lib/job-assets/dcaudit/pgjxfields.js.                                   *)
(*                                                                         *)
(* The Node stream framework and the two upstream SplitStreams are the     *)
(* environment of JoinStream.  What the environment may do:                *)
(*   - a source makes its next record readable at any time (SourceData);   *)
(*   - a source emits 'readable' at any time the program is at rest;       *)
(*   - a source emits 'end' once, at rest, after all its records have been *)
(*     returned by read();                                                 *)
(*   - the framework calls _read() at any time the program is at rest and  *)
(*     re-entrantly during push(row), but never after push(null);          *)
(*   - push(row) returns true or false;                                    *)
(*   - the 'error' listener of main (mod_cmdutil.fail) exits the process.  *)
(* Handlers run to completion; pc is the position of the one thread.       *)
(***************************************************************************)
EXTENDS Integers, Sequences, FiniteSets, TLC

VARIABLES
    inputs,         \* per source, the records it delivers (fixed for a run)
    src_arrived,    \* per source, how many records it has made readable
    src_taken,      \* per source, how many records read() has returned
    js_sources,     \* JoinStream.js_sources: src_next, src_next_join, ...
    js_waiting,     \* JoinStream.js_waiting
    js_working,     \* JoinStream.js_working
    pc,             \* "idle" | "kick" | "push" | "pusheof" | "exited" |
                    \* "assert_kick" | "assert_eof" | "assert_emit"
    output,         \* rows given to push(), in order
    eofs,           \* number of push(null) calls
    err,            \* source index of the emitted 'out of order' error, or NoErr
    demand,         \* consumer asked for data (_read) and push has not said stop
    event,          \* the handler or step that ran last
    \* main
    nwarnings,      \* warnings counted by streamWarn
    done,           \* set by endReport
    report,         \* the 'warnings: n' line of endReport, or NoReport
    exit_status,    \* status the process exited with, or NoExit
    src_rejects,    \* per source, lines of its file SplitStream has yet to
                    \* reject
    \* AuditStream
    as_verbose,     \* AuditStream.as_verbose
    as_ninputs,     \* rows _transform has been called with
    stdout,         \* diagnostics pushed by emitRowRaw, in order
    \* one SplitStream on its own
    sp_input,       \* lines not yet given to _transform
    sp_pushed,      \* records pushed, in order
    sp_warned,      \* kinds of the warnings emitted, in order
    \* pgjxfields.js
    es_fieldnames,  \* ExtractorStream.es_fieldnames
    es_indexes,     \* ExtractorStream.es_indexes, or NoIndexes
    es_types,       \* ExtractorStream.es_types
    es_input,       \* the objects parsed from stdin (fixed for a run)
    es_ninputs,     \* objects _transform has been called with
    es_out,         \* lines pushed, in order
    es_warned,      \* kinds of the warnings emitted, in order
    es_error,       \* message of the error given to callback, or NoMessage
    \* lib/dcaudit.js: launchDcAuditJob
    aj,             \* the operation object "op" and its vasync pipeline
    manta,          \* what the Manta service holds: asset, job, jobs list
    aj_calls,       \* results given to the caller's callback, in order
    \* lib/metering.js: listMeteringReports
    mrl,            \* the ReportLister: mrl_queue, mrl_results, mrl_errors
    metering,       \* the arguments, and what Manta holds under meteringRoot
    mrl_calls,      \* arguments given to the caller's callback, in order
    \* lib/dumps.js: listDumps
    dl,             \* the DumpLister, its waterfall and its queue
    dl_calls,       \* results given to the caller's callback, in order
    setcmp,         \* one call of setCompare: its arguments and its result
    \* lib/dcaudit.js: reportDcAuditJob
    r               \* the report object "r", the job, the caller's callback

joinvars == <<inputs, src_arrived, src_taken, js_sources, js_waiting,
              js_working, pc, output, eofs, err, demand, event>>
mainvars == <<nwarnings, done, report, src_rejects>>
auditvars == <<as_verbose, as_ninputs, stdout>>
splitvars == <<sp_input, sp_pushed, sp_warned>>
extvars == <<es_fieldnames, es_indexes, es_types, es_input, es_ninputs,
             es_out, es_warned, es_error>>

libvars == <<aj, manta, aj_calls, mrl, metering, mrl_calls, dl, dl_calls,
            setcmp, r>>

vars == <<joinvars, mainvars, exit_status, auditvars, splitvars, extvars,
          libvars>>

(* ------------------------------ bounds --------------------------------- *)
MaxLen == 2
MaxKey == 3

(* --------------------------- program constants ------------------------- *)
NSources == 2
JoinOnIndex == 1

Sources == 0 .. (NSources - 1)
Keys == 1 .. MaxKey

\* JS null as a join key, and as a record
Null == 0
NoRec == <<>>
NoErr == -1
NoReport == -1
NoExit == -1
NoIndexes == <<-2>>
NoMessage == ""

SeqsUpTo(S, n) == UNION { [1 .. m -> S] : m \in 0 .. n }

\* A source delivers the records pushed by its SplitStream: [ count, parts[1] ].
\* The key is the JSON literal as written; Keys stands for the literals in
\* their string order.  JoinStream never looks at the count, so here each
\* record of a run carries a count of its own, which tells the records apart.
SourceRecords(i, keys) ==
    [p \in 1 .. Len(keys) |-> <<i * MaxLen + p, keys[p]>>]

\* datum[this.js_joinidx]
JoinField(datum) == datum[JoinOnIndex + 1]

JsLess_OrEqual(a, b) == a # Null /\ b # Null /\ a <= b

JsLess_Flipped(a, b) == a # Null /\ b # Null /\ a > b

\* JS a < b on join keys (strings, or null): a comparison with null is false
\* because the key literal starts with a quote and converts to NaN.
JsLess(a, b) == a # Null /\ b # Null /\ a < b

JsGreater_Flipped(a, b) == a # Null /\ b # Null /\ a < b

\* JS a > b on join keys
JsGreater(a, b) == a # Null /\ b # Null /\ a > b

\* main before any event: nwarnings = 0, done unset, nothing printed
MainStart ==
    /\ nwarnings = 0
    /\ done = FALSE
    /\ report = NoReport
    /\ exit_status = NoExit

\* new AuditStream({ 'verbose': verbose })
AuditStart(verbose) ==
    /\ as_verbose = verbose
    /\ as_ninputs = 0
    /\ stdout = <<>>

\* no SplitStream is run on its own
SplitUnused ==
    /\ sp_input = <<>>
    /\ sp_pushed = <<>>
    /\ sp_warned = <<>>

\* pgjxfields.js is a program of its own
ExtractorUnused ==
    /\ es_fieldnames = <<>>
    /\ es_indexes = NoIndexes
    /\ es_types = <<>>
    /\ es_input = <<>>
    /\ es_ninputs = 0
    /\ es_out = <<>>
    /\ es_warned = <<>>
    /\ es_error = NoMessage

\* launchDcAuditJob has not been called
NoLaunch ==
    [dryRun |-> FALSE, pending |-> "none", started |-> <<>>, ndone |-> 0,
     nerrors |-> 0, thrown |-> FALSE, entry_manta |-> FALSE,
     entry_dircounts |-> FALSE, jobpath |-> FALSE, jobslist |-> -1,
     jobslist_etag |-> -1]

NoManta ==
    [asset |-> FALSE, jobs |-> 0, keys |-> 0, ended |-> FALSE,
     list_exists |-> FALSE, list_jobs |-> 0, list_etag |-> 0,
     listed |-> FALSE]

\* a queue nothing has been pushed on
NoQueue ==
    [tasks |-> <<>>, concurrency |-> 1, ndispatched |-> 0, inflight |-> {},
     reading |-> {}, completed |-> {}, overtakes |-> 0, ended |-> FALSE]

\* new DumpLister(args) for no arguments at all
NoDumpLister ==
    [args_shards |-> [null |-> TRUE, list |-> <<>>], dl_shards |-> <<>>,
     dl_shards_null |-> TRUE, dl_ndays |-> 0, dl_end |-> 0,
     dl_concurrency |-> 1, dl_foundshards |-> <<>>, dl_errors |-> 0,
     dl_dumps |-> {}, stage |-> "none", wferr |-> "", tasks |-> <<>>,
     ndispatched |-> 0, inflight |-> {}, failed |-> "", contents |-> 0,
     listed |-> {}]

\* reportDcAuditJob before it is called: the job that args.jobPath names
\* (timeArchiveDone stands for its having that property), the r_object
\* property of args, the fields of "r", the function the pipeline is
\* waiting in, and the arguments given to the caller's callback
NoJobReport ==
    [job |-> [state |-> "", timeArchiveDone |-> FALSE,
              stats |-> [errors |-> 0, outputs |-> 0]],
     args_r_object |-> "undefined",
     r_jobstate |-> [null |-> TRUE],
     r_output_path |-> [null |-> TRUE],
     r_object |-> "null",
     waiting |-> "none",
     calls |-> <<>>]

\* The library modules are not part of the audit programs, and each of
\* them is used on its own: all but "used" are as they are before any call.
LibraryUnused(used) ==
    /\ IF used = "launchDcAuditJob" THEN TRUE
       ELSE /\ aj = NoLaunch
            /\ manta = NoManta
            /\ aj_calls = <<>>
    /\ IF used = "listMeteringReports" THEN TRUE
       ELSE /\ mrl = [queue |-> NoQueue, results |-> <<>>, errors |-> <<>>,
                      failed |-> ""]
            /\ metering = [scenario |-> "", mrl_ndays |-> 0, mrl_end |-> 0]
            /\ mrl_calls = <<>>
    /\ IF used = "listDumps" THEN TRUE
       ELSE /\ dl = NoDumpLister
            /\ dl_calls = <<>>
    /\ IF used = "setCompare" THEN TRUE
       ELSE setcmp = [lhs |-> <<>>, rhs |-> <<>>, called |-> FALSE,
                      rv |-> [isect |-> <<>>, lhsonly |-> <<>>,
                              rhsonly |-> <<>>]]
    /\ IF used = "reportDcAuditJob" THEN TRUE ELSE r = NoJobReport

NewSource ==
    [src_next |-> NoRec, src_next_join |-> Null, src_last_join |-> Null,
     src_done |-> FALSE]

Init ==
    /\ \E keys \in [Sources -> SeqsUpTo(Keys, MaxLen)] :
          inputs = [i \in Sources |-> SourceRecords(i, keys[i])]
    /\ src_arrived = [i \in Sources |-> 0]
    /\ src_taken = [i \in Sources |-> 0]
    /\ js_sources = [i \in Sources |-> NewSource]
    /\ js_waiting = FALSE
    /\ js_working = FALSE
    /\ pc = "idle"
    /\ output = <<>>
    /\ eofs = 0
    /\ err = NoErr
    /\ demand = FALSE
    /\ event = "init"
    /\ MainStart
    /\ src_rejects = [i \in Sources |-> 0]
    /\ AuditStart(FALSE)
    /\ SplitUnused
    /\ ExtractorUnused
    /\ LibraryUnused("")

(* ------------------------------ sources -------------------------------- *)

\* The upstream SplitStream pushes its next record into its readable buffer.
SourceData(i) ==
    /\ pc \in {"idle", "kick"}
    /\ src_arrived[i] < Len(inputs[i])
    /\ src_arrived' = [src_arrived EXCEPT ![i] = @ + 1]
    /\ event' = "data"
    /\ UNCHANGED <<inputs, src_taken, js_sources, js_waiting, js_working, pc,
                   output, eofs, err, demand>>
    /\ UNCHANGED <<mainvars, exit_status, auditvars, splitvars, extvars, libvars>>

KickIfWaiting_Always ==
    /\ js_waiting' = FALSE
    /\ pc' = "kick"

\* JoinStream.prototype.kickIfWaiting
KickIfWaiting ==
    IF ~js_waiting
    THEN UNCHANGED <<js_waiting, pc>>
    ELSE /\ js_waiting' = FALSE
         /\ pc' = "kick"

\* s.on('readable', function sourceReadable() { self.kickIfWaiting(); })
SourceReadable(i) ==
    /\ pc = "idle"
    /\ KickIfWaiting
    /\ event' = "readable"
    /\ UNCHANGED <<inputs, src_arrived, src_taken, js_sources, js_working,
                   output, eofs, err, demand>>
    /\ UNCHANGED <<mainvars, exit_status, auditvars, splitvars, extvars, libvars>>

\* s.on('end', function sourceEnded() { src.src_done = true; ... })
SourceEnded(i) ==
    /\ pc = "idle"
    /\ ~js_sources[i].src_done
    /\ src_taken[i] = Len(inputs[i])
    /\ src_rejects[i] = 0
    /\ js_sources' = [js_sources EXCEPT ![i].src_done = TRUE]
    /\ KickIfWaiting
    /\ event' = "end"
    /\ UNCHANGED <<inputs, src_arrived, src_taken, js_working, output, eofs,
                   err, demand>>
    /\ UNCHANGED <<mainvars, exit_status, auditvars, splitvars, extvars, libvars>>

(* ------------------------------ consumer ------------------------------- *)

Read_IgnoresWaiting ==
    /\ pc \in {"idle", "push"}
    /\ eofs = 0
    /\ IF js_working
       THEN UNCHANGED pc
       ELSE pc' = "kick"
    /\ demand' = TRUE
    /\ event' = "read"
    /\ UNCHANGED <<inputs, src_arrived, src_taken, js_sources, js_waiting,
                   js_working, output, eofs, err>>
    /\ UNCHANGED <<mainvars, exit_status, auditvars, splitvars, extvars, libvars>>

\* JoinStream.prototype._read
Read ==
    /\ pc \in {"idle", "push"}
    /\ eofs = 0
    /\ IF js_working \/ js_waiting
       THEN UNCHANGED pc
       ELSE pc' = "kick"
    /\ demand' = TRUE
    /\ event' = "read"
    /\ UNCHANGED <<inputs, src_arrived, src_taken, js_sources, js_waiting,
                   js_working, output, eofs, err>>
    /\ UNCHANGED <<mainvars, exit_status, auditvars, splitvars, extvars, libvars>>

(* ------------------------------ kick ----------------------------------- *)

\* The first loop of kick: make sure the next row of every source is at
\* hand.  src.src_stream.read() returns the source's next readable record,
\* or null when it has none.  The loop returns at the first record that is
\* out of order (err is that source's index).
HasRowOrDone_OnlyDone(src) == src.src_done

\* if (src.src_next !== null || src.src_done) continue;
HasRowOrDone(src) == src.src_next # NoRec \/ src.src_done

StillBlocked_Stale(blocked, src) == blocked

\* blocked = blocked || !src.src_done;
StillBlocked(blocked, src) == blocked \/ ~src.src_done

RECURSIVE PullLoop(_, _, _, _)
PullLoop(i, srcs, taken, blocked) ==
    IF i = NSources
    THEN [srcs |-> srcs, taken |-> taken, blocked |-> blocked, err |-> NoErr]
    ELSE IF HasRowOrDone(srcs[i])
    THEN PullLoop(i + 1, srcs, taken, blocked)
    ELSE IF taken[i] = src_arrived[i]
    THEN PullLoop(i + 1, srcs, taken, StillBlocked(blocked, srcs[i]))
    ELSE LET datum == inputs[i][taken[i] + 1]
             nsrcs == [srcs EXCEPT ![i].src_next = datum,
                                   ![i].src_next_join = JoinField(datum)]
             ntaken == [taken EXCEPT ![i] = @ + 1]
         IN  IF JsLess(nsrcs[i].src_next_join, nsrcs[i].src_last_join)
             THEN [srcs |-> nsrcs, taken |-> ntaken, blocked |-> blocked,
                   err |-> i]
             ELSE PullLoop(i + 1, nsrcs, ntaken, blocked)

\* The second loop of kick: the earliest join key among the buffered rows.
RECURSIVE EarliestFrom(_, _, _)
EarliestFrom(i, srcs, joinkey) ==
    IF i = NSources
    THEN joinkey
    ELSE IF srcs[i].src_next_join # Null
            /\ (joinkey = Null \/ JsGreater(joinkey, srcs[i].src_next_join))
    THEN EarliestFrom(i + 1, srcs, srcs[i].src_next_join)
    ELSE EarliestFrom(i + 1, srcs, joinkey)

JoinedRow_AnyBuffered(srcs, joinkey) ==
    <<joinkey>> \o [n \in 1 .. NSources |-> srcs[n - 1].src_next]

\* The third loop of kick: [ joinkey, value or null per source ]
JoinedRow(srcs, joinkey) ==
    <<joinkey>> \o
    [n \in 1 .. NSources |->
        IF joinkey = srcs[n - 1].src_next_join
        THEN srcs[n - 1].src_next
        ELSE NoRec]

AfterJoin_KeepsLastJoin(srcs, joinkey) ==
    [i \in Sources |->
        IF joinkey = srcs[i].src_next_join
        THEN [srcs[i] EXCEPT !.src_next_join = Null, !.src_next = NoRec]
        ELSE srcs[i]]

\* ... and what the third loop leaves in js_sources
AfterJoin(srcs, joinkey) ==
    [i \in Sources |->
        IF joinkey = srcs[i].src_next_join
        THEN [srcs[i] EXCEPT !.src_last_join = srcs[i].src_next_join,
                             !.src_next_join = Null,
                             !.src_next = NoRec]
        ELSE srcs[i]]

OnError_Continues ==
    /\ pc' = "idle"
    /\ UNCHANGED exit_status

\* joinstream.on('error', mod_cmdutil.fail): the listener prints the error
\* and exits the process with status 1.
OnError ==
    /\ pc' = "exited"
    /\ exit_status' = 1

\* JoinStream.prototype.kick, from its entry to its return or to its call
\* of push().
Kick ==
    /\ pc = "kick"
    /\ event' = "kick"
    /\ UNCHANGED <<mainvars, auditvars, splitvars, extvars, libvars>>
    /\ IF js_waiting \/ js_working
       THEN \* mod_assertplus.ok fails: the AssertionError ends the process
            /\ pc' = "assert_kick"
            /\ UNCHANGED <<inputs, src_arrived, src_taken, js_sources,
                           js_waiting, js_working, output, eofs, err, demand,
                           exit_status>>
       ELSE LET p == PullLoop(0, js_sources, src_taken, FALSE)
                joinkey == EarliestFrom(0, p.srcs, Null)
            IN  /\ src_taken' = p.taken
                /\ UNCHANGED <<inputs, src_arrived, demand>>
                /\ IF p.err # NoErr
                   THEN /\ js_sources' = p.srcs
                        /\ err' = p.err
                        /\ OnError
                        /\ UNCHANGED <<js_waiting, js_working, output, eofs>>
                   ELSE IF p.blocked
                   THEN /\ js_sources' = p.srcs
                        /\ js_waiting' = TRUE
                        /\ pc' = "idle"
                        /\ UNCHANGED <<js_working, output, eofs, err,
                                       exit_status>>
                   ELSE IF joinkey = Null
                   THEN /\ js_sources' = p.srcs
                        /\ IF \E i \in Sources : ~p.srcs[i].src_done
                           THEN \* mod_assertplus.equal(0, ...) fails
                                /\ pc' = "assert_eof"
                                /\ UNCHANGED <<js_working, eofs>>
                           ELSE /\ js_working' = TRUE
                                /\ eofs' = eofs + 1
                                /\ pc' = "pusheof"
                        /\ UNCHANGED <<js_waiting, output, err, exit_status>>
                   ELSE /\ output' = Append(output, JoinedRow(p.srcs, joinkey))
                        /\ js_sources' = AfterJoin(p.srcs, joinkey)
                        /\ js_working' = TRUE
                        /\ pc' = "push"
                        /\ UNCHANGED <<js_waiting, eofs, err, exit_status>>

PushReturn_IgnoresCapacity(keepgoing) ==
    /\ pc = "push"
    /\ js_working' = FALSE
    /\ pc' = "kick"
    /\ demand' = keepgoing
    /\ event' = "pushed"
    /\ UNCHANGED <<inputs, src_arrived, src_taken, js_sources, js_waiting,
                   output, eofs, err>>
    /\ UNCHANGED <<mainvars, exit_status, auditvars, splitvars, extvars, libvars>>

\* this.push(output) returns: js_working is cleared, and kick calls itself
\* when the framework wants more.
PushReturn(keepgoing) ==
    /\ pc = "push"
    /\ js_working' = FALSE
    /\ pc' = IF keepgoing THEN "kick" ELSE "idle"
    /\ demand' = keepgoing
    /\ event' = "pushed"
    /\ UNCHANGED <<inputs, src_arrived, src_taken, js_sources, js_waiting,
                   output, eofs, err>>
    /\ UNCHANGED <<mainvars, exit_status, auditvars, splitvars, extvars, libvars>>

\* this.push(null) returns
PushEofReturn ==
    /\ pc = "pusheof"
    /\ js_working' = FALSE
    /\ pc' = "idle"
    /\ event' = "pushedeof"
    /\ UNCHANGED <<inputs, src_arrived, src_taken, js_sources, js_waiting,
                   output, eofs, err, demand>>
    /\ UNCHANGED <<mainvars, exit_status, auditvars, splitvars, extvars, libvars>>

Next ==
    \/ \E i \in Sources : SourceData(i)
    \/ \E i \in Sources : SourceReadable(i)
    \/ \E i \in Sources : SourceEnded(i)
    \/ Read
    \/ Kick
    \/ \E keepgoing \in BOOLEAN : PushReturn(keepgoing)
    \/ PushEofReturn

Spec == Init /\ [][Next]_vars

\* The event loop does not stop while something can happen (a handler that
\* has started runs to its end, and the consumer, a pipe to stdout, reads
\* again after it has reported that it has no room), and each source goes on
\* to deliver its records and its end whenever the program is at rest.
Fairness ==
    /\ WF_vars(Next)
    /\ SF_vars(\E i \in Sources : SourceData(i) \/ SourceEnded(i))

\* The runs with no order violation: every source delivers its records in
\* non-decreasing key order.
InOrderInit ==
    /\ Init
    /\ \A i \in Sources : \A p \in 2 .. Len(inputs[i]) :
          ~JsLess(JoinField(inputs[i][p]), JoinField(inputs[i][p - 1]))

FairSpec == InOrderInit /\ [][Next]_vars /\ Fairness

(* ======================================================================= *)
(*                         Properties of JoinStream                        *)
(* ======================================================================= *)

KeyAt(i, p) == inputs[i][p][JoinOnIndex + 1]

InputKeys(i) == { KeyAt(i, p) : p \in 1 .. Len(inputs[i]) }

\* source i is sorted by key and has at most one record per key
WellFormedSource(i) ==
    \A p, q \in 1 .. Len(inputs[i]) : p < q => KeyAt(i, p) < KeyAt(i, q)

WellFormed == \A i \in Sources : WellFormedSource(i)

\* no source has two records with the same key
OneRecordPerKey ==
    \A i \in Sources : \A p, q \in 1 .. Len(inputs[i]) :
        p # q => KeyAt(i, p) # KeyAt(i, q)

OutKey(n) == output[n][1]

OutKeys == { OutKey(n) : n \in 1 .. Len(output) }

\* the slot of source i in a row
Slot(row, i) == row[i + 2]

\* the records of source i that are in an emitted row, in the order emitted
RECURSIVE SlotRecordsFrom(_, _)
SlotRecordsFrom(i, n) ==
    IF n > Len(output) THEN <<>>
    ELSE IF Slot(output[n], i) = NoRec THEN SlotRecordsFrom(i, n + 1)
    ELSE <<Slot(output[n], i)>> \o SlotRecordsFrom(i, n + 1)

EmittedRecords(i) == SlotRecordsFrom(i, 1)

Completed == eofs > 0

Failed == err # NoErr

\* C1: for sources that are each sorted by key with at most one record per
\* key, a run that completes (push(null)) has emitted a row with key k iff k
\* occurs in at least one source, and no key in more than one row.
C1_FullOuterJoin ==
    (WellFormed /\ Completed) =>
        /\ OutKeys = UNION { InputKeys(i) : i \in Sources }
        /\ \A m, n \in 1 .. Len(output) : m # n => OutKey(m) # OutKey(n)

\* a completed run over well-formed sources that share a key and each have a
\* key of their own
C1_Witness ==
    /\ WellFormed /\ Completed
    /\ InputKeys(0) \cap InputKeys(1) # {}
    /\ InputKeys(0) \ InputKeys(1) # {}
    /\ InputKeys(1) \ InputKeys(0) # {}
    /\ Len(output) = 3

\* C2 as stated: the key of every emitted row is strictly greater than the
\* key of the row emitted before it, in every run.
C2_StrictlyIncreasing_Original ==
    \A n \in 2 .. Len(output) : OutKey(n) > OutKey(n - 1)

\* C2 as amended: the key of an emitted row is never smaller than the key of
\* the row before it, and it is strictly greater when no source delivers two
\* records with the same key.
C2_Increasing ==
    /\ \A n \in 2 .. Len(output) : OutKey(n) >= OutKey(n - 1)
    /\ OneRecordPerKey => \A n \in 2 .. Len(output) : OutKey(n) > OutKey(n - 1)

\* two rows emitted from sources that are not sorted, with one record per key
C2_Witness ==
    /\ OneRecordPerKey /\ ~WellFormed
    /\ Len(output) >= 2
    /\ \A i \in Sources : Len(inputs[i]) = MaxLen

\* a record of source i at position p whose key is smaller than a key the
\* source delivered earlier
OutOfOrderAt(i, p) == \E q \in 1 .. (p - 1) : KeyAt(i, p) < KeyAt(i, q)

\* C3: when a source has delivered (read() has returned) a record whose key
\* is smaller than a key it delivered earlier, the run has ended in the 'out
\* of order' error for that source, it has not signalled end-of-stream, and
\* the rows emitted hold only the records before the violation: neither the
\* offending record nor a later one of that source is in a row.
C3_FatalOnDisorder ==
    \A i \in Sources : \A p \in 1 .. src_taken[i] :
        OutOfOrderAt(i, p) =>
            /\ err = i /\ pc = "exited" /\ eofs = 0
            /\ src_taken[i] = p
            /\ EmittedRecords(i) = SubSeq(inputs[i], 1, p - 1)

\* source 1 delivered a record out of order after rows were emitted
C3_Witness ==
    /\ src_taken[1] = 2 /\ OutOfOrderAt(1, 2)
    /\ Len(output) >= 2
    /\ pc = "exited"

\* C4: once the order-violation error has been emitted, no row and no
\* end-of-stream marker is emitted any more.
C4_ErrorIsTerminal ==
    [][Failed => (output' = output /\ eofs' = eofs /\ Failed')]_vars

\* the error has been emitted while the other source still has a row buffered
C4_Witness ==
    /\ Failed
    /\ \E i \in Sources : i # err /\ js_sources[i].src_next # NoRec
    /\ Len(output) >= 1

\* C5: end-of-stream is signalled only when every source has ended and none
\* holds a buffered record, so that every record of every source is in an
\* emitted row; the assertion before push(null) never fails.
C5_EndOnlyWhenDrained ==
    /\ pc # "assert_eof"
    /\ Completed =>
          \A i \in Sources :
              /\ js_sources[i].src_done
              /\ js_sources[i].src_next = NoRec
              /\ js_sources[i].src_next_join = Null
              /\ EmittedRecords(i) = inputs[i]

\* end-of-stream after both sources delivered MaxLen records
C5_Witness ==
    /\ pc = "pusheof"
    /\ \A i \in Sources : Len(inputs[i]) = MaxLen

\* C6: in a run with no order violation (sources in non-decreasing key order)
\* the end-of-stream marker is emitted exactly once: it is emitted, and once
\* it is, no row and no second marker follows.
C6_EndExactlyOnce ==
    /\ [][Completed => (output' = output /\ eofs' = eofs)]_vars
    /\ <>Completed

\* a completed run in which a source signalled readable after the marker
C6_Witness ==
    /\ Completed /\ eofs = 1
    /\ pc = "idle" /\ event = "readable"
    /\ Len(output) >= 2

\* records of source i pulled by read() and not yet in an emitted row
Held(i) == src_taken[i] - Len(EmittedRecords(i))

\* C7: at most one pulled, not yet emitted record per source, and it is the
\* one in src_next; a source is pulled only when its buffer is empty and it
\* has not ended, one record at a time.
C7_OneRecordPerSource ==
    /\ [](\A i \in Sources :
            /\ Held(i) \in {0, 1}
            /\ (Held(i) = 0) = (js_sources[i].src_next = NoRec)
            /\ Held(i) = 1 => js_sources[i].src_next = inputs[i][src_taken[i]])
    /\ [][\A i \in Sources :
            src_taken'[i] # src_taken[i] =>
                /\ js_sources[i].src_next = NoRec
                /\ ~js_sources[i].src_done
                /\ src_taken'[i] = src_taken[i] + 1]_vars

\* source 1 holds its first record while source 0 has been pulled twice
C7_Witness ==
    /\ src_taken[0] = 2 /\ src_taken[1] = 1
    /\ js_sources[1].src_next # NoRec
    /\ src_arrived[1] = 2

\* C8: a row is emitted only while the consumer has asked for data (_read)
\* and no push since has reported that it has no room; while the engine is
\* stopped for that reason a source's data, readable or end event neither
\* emits nor starts kick.
C8_Backpressure ==
    /\ [][(output' # output \/ eofs' # eofs) => demand]_vars
    /\ [][(~demand /\ event' \in {"data", "readable", "end"}) =>
            (output' = output /\ pc' = pc /\ ~js_waiting')]_vars

\* stopped for backpressure after a row, a source has a record to read and
\* has signalled readable, and nothing more was emitted
C8_Witness ==
    /\ ~demand /\ pc = "idle" /\ event = "readable"
    /\ Len(output) = 1
    /\ \E i \in Sources : src_taken[i] < src_arrived[i]

\* source i has no buffered row, has not ended and has nothing to read
Starved(i) ==
    /\ js_sources[i].src_next = NoRec
    /\ ~js_sources[i].src_done
    /\ src_taken[i] = src_arrived[i]

\* C9: a run of kick that finds a source with neither a row nor its end (and
\* raises no error) emits nothing, sets js_waiting and returns; while
\* js_waiting is set, a source's readable or end event clears it and runs
\* kick, and nothing else does.
C9_BlockedWaits ==
    /\ [][(pc = "kick" /\ event' = "kick" /\ pc' # "assert_kick"
             /\ ~Failed' /\ \E i \in Sources : Starved(i)) =>
            (output' = output /\ eofs' = eofs /\ js_waiting' /\ pc' = "idle")]_vars
    /\ [][(js_waiting /\ event' \in {"readable", "end"}) =>
            (~js_waiting' /\ pc' = "kick")]_vars
    /\ [][(js_waiting /\ (~js_waiting' \/ pc' # "idle")) =>
            event' \in {"readable", "end"}]_vars
    /\ [](js_waiting => pc = "idle")

\* waiting for a source after a row was emitted, and a _read() changed nothing
C9_Witness ==
    /\ js_waiting /\ pc = "idle" /\ event = "read"
    /\ Len(output) >= 1
    /\ \E i \in Sources : Starved(i)

\* the record of source i with key k, if it has one
RecordWithKey(i, k) ==
    IF k \in InputKeys(i)
    THEN inputs[i][CHOOSE p \in 1 .. Len(inputs[i]) : KeyAt(i, p) = k]
    ELSE NoRec

\* the full outer join of the inputs, by increasing key
RECURSIVE ExpectedFrom(_)
ExpectedFrom(k) ==
    IF k > MaxKey THEN <<>>
    ELSE (IF \E i \in Sources : k \in InputKeys(i)
          THEN << <<k>> \o [n \in 1 .. NSources |-> RecordWithKey(n - 1, k)] >>
          ELSE <<>>) \o ExpectedFrom(k + 1)

ExpectedRows == ExpectedFrom(1)

\* C10: for well-formed, sorted inputs the rows emitted are, under every
\* interleaving of source events and _read calls, a prefix of one sequence
\* fixed by the inputs (keys and slot contents), and all of it when the run
\* completes.
C10_Deterministic ==
    WellFormed =>
        /\ Len(output) <= Len(ExpectedRows)
        /\ output = SubSeq(ExpectedRows, 1, Len(output))
        /\ Completed => output = ExpectedRows

\* a completed run whose rows hold a row joined from both sources, reached
\* after source 1 had delivered everything before source 0 delivered a record
C10_Witness ==
    /\ WellFormed /\ Completed
    /\ Len(ExpectedRows) = MaxKey
    /\ \E n \in 1 .. Len(output) :
          Slot(output[n], 0) # NoRec /\ Slot(output[n], 1) # NoRec

(* ----------------------------- AuditStream ----------------------------- *)

\* bound on the counts of the records given to AuditStream
MaxCount == 1

Counts == 0 .. MaxCount

\* A count handed to emitRow is a number or JS null; <<c>> is the number c.
NullCount == <<>>

Letters == <<"a", "b", "c", "d", "e", "f", "g", "h">>

\* this.push([ count, parts[1] ]): the key of a record is the second field of
\* its line as written.  Key k stands for the JSON string literal of the k-th
\* letter, quotes included; the literals are in string order as the keys are
\* in numeric order.
KeyLiteral(k) == <<"\"", Letters[k], "\"">>

\* entry[n] === null ? null : entry[n][0]
SlotCount(slot) == IF slot = NoRec THEN NullCount ELSE <<slot[1]>>

\* x || 0 on a count
OrZero(x) == IF x = NullCount \/ x = <<0>> THEN 0 ELSE x[1]

\* AuditStream.prototype.emitRowRaw: what it pushes
EmitRowRaw(dirname, rawcount, count, message) ==
    <<[dirname |-> dirname, ndirents |-> rawcount, nreported |-> count,
       status |-> message]>>

MessageOf_ZeroIsMismatch(rawcount, count) ==
    LET m1 == IF count = NullCount
              THEN "error: count mismatch (no optimized count)"
              ELSE NoMessage
        m2 == IF rawcount = NullCount
              THEN "error: count mismatch (no entries)"
              ELSE m1
    IN  IF m2 = NoMessage /\ count # rawcount
        THEN "error: count mismatch"
        ELSE m2

\* emitRow, lines 523-542: the value of message, NoMessage for null
MessageOf(rawcount, count) ==
    LET m1 == IF count = NullCount
              THEN IF rawcount = <<0>>
                   THEN "warn: missing optimized count"
                   ELSE "error: count mismatch (no optimized count)"
              ELSE NoMessage
        m2 == IF rawcount = NullCount
              THEN IF count = <<0>>
                   THEN "warn: leaked optimized count"
                   ELSE "error: count mismatch (no entries)"
              ELSE m1
    IN  IF m2 = NoMessage /\ count # rawcount
        THEN "error: count mismatch"
        ELSE m2

EmitRow_IgnoresVerbose(verbose, dirname, rawcount, count) ==
    EmitRowRaw(dirname, OrZero(rawcount), OrZero(count),
               IF MessageOf(rawcount, count) = NoMessage
               THEN "count okay"
               ELSE MessageOf(rawcount, count))

\* AuditStream.prototype.emitRow: the diagnostics it pushes, none or one
EmitRow(verbose, dirname, rawcount, count) ==
    IF MessageOf(rawcount, count) = NoMessage
    THEN IF ~verbose
         THEN <<>>
         ELSE EmitRowRaw(dirname, OrZero(rawcount), OrZero(count),
                         "count okay")
    ELSE EmitRowRaw(dirname, OrZero(rawcount), OrZero(count),
                    MessageOf(rawcount, count))

\* AuditStream.prototype._transform, called by the pipe from joinstream with
\* the next row; emitRow's assertions fail on a row with no record.
AuditTransform ==
    /\ pc \in {"idle", "push", "pusheof"}
    /\ as_ninputs < Len(output)
    /\ LET entry == output[as_ninputs + 1]
           rawcount == SlotCount(entry[2])
           count == SlotCount(entry[3])
       IN  /\ as_ninputs' = as_ninputs + 1
           /\ IF Len(entry) # 3 \/ (rawcount = NullCount /\ count = NullCount)
              THEN /\ pc' = "assert_emit"
                   /\ UNCHANGED stdout
              ELSE /\ stdout' = stdout \o EmitRow(as_verbose,
                                     KeyLiteral(entry[1]), rawcount, count)
                   /\ UNCHANGED pc
    /\ event' = "audit"
    /\ UNCHANGED <<inputs, src_arrived, src_taken, js_sources, js_waiting,
                   js_working, output, eofs, err, demand>>
    /\ UNCHANGED <<mainvars, exit_status, as_verbose, splitvars, extvars, libvars>>

(* -------------------------------- main --------------------------------- *)

\* streamWarn, the 'warn' listener of both SplitStreams
StreamWarn == nwarnings' = nwarnings + 1

\* The SplitStream of source i rejects a line of its file.
SourceWarn(i) ==
    /\ pc \in {"idle", "kick"}
    /\ src_rejects[i] > 0
    /\ ~js_sources[i].src_done
    /\ src_rejects' = [src_rejects EXCEPT ![i] = @ - 1]
    /\ StreamWarn
    /\ event' = "warn"
    /\ UNCHANGED <<inputs, src_arrived, src_taken, js_sources, js_waiting,
                   js_working, pc, output, eofs, err, demand>>
    /\ UNCHANGED <<done, report, exit_status, auditvars, splitvars, extvars, libvars>>

EndReport_NeverExits ==
    /\ pc = "idle"
    /\ eofs > 0
    /\ as_ninputs = Len(output)
    /\ ~done
    /\ report' = nwarnings
    /\ done' = TRUE
    /\ event' = "endReport"
    /\ UNCHANGED <<inputs, src_arrived, src_taken, js_sources, js_waiting,
                   js_working, pc, output, eofs, err, demand>>
    /\ UNCHANGED <<nwarnings, src_rejects, exit_status, auditvars, splitvars,
                   extvars, libvars>>

\* cmpstream.on('end', endReport): AuditStream ends once joinstream has ended
\* and every row has been transformed.
EndReport ==
    /\ pc = "idle"
    /\ eofs > 0
    /\ as_ninputs = Len(output)
    /\ ~done
    /\ report' = nwarnings
    /\ done' = TRUE
    /\ IF nwarnings > 0
       THEN /\ pc' = "exited"
            /\ exit_status' = 1
       ELSE UNCHANGED <<pc, exit_status>>
    /\ event' = "endReport"
    /\ UNCHANGED <<inputs, src_arrived, src_taken, js_sources, js_waiting,
                   js_working, output, eofs, err, demand>>
    /\ UNCHANGED <<nwarnings, src_rejects, auditvars, splitvars, extvars, libvars>>

\* The event loop has nothing left after endReport: node exits with status
\* 0, and the 'exit' listener finds done set.
ProcessExit ==
    /\ pc = "idle"
    /\ done
    /\ pc' = "exited"
    /\ exit_status' = 0
    /\ event' = "exit"
    /\ UNCHANGED <<inputs, src_arrived, src_taken, js_sources, js_waiting,
                   js_working, output, eofs, err, demand>>
    /\ UNCHANGED <<mainvars, auditvars, splitvars, extvars, libvars>>

(* -------------------- C11: how kick builds a row ----------------------- *)

\* The record source i holds once the first loop of kick has run without
\* blocking: the one already buffered, or the one read() returns.
BufferedAfterPull(i) ==
    IF js_sources[i].src_next # NoRec THEN js_sources[i].src_next
    ELSE IF ~js_sources[i].src_done /\ src_taken[i] < src_arrived[i]
    THEN inputs[i][src_taken[i] + 1]
    ELSE NoRec

BufferedKeys ==
    { JoinField(BufferedAfterPull(i)) :
        i \in { j \in Sources : BufferedAfterPull(j) # NoRec } }

RowPushed == Len(output') = Len(output) + 1

LastRow == output'[Len(output')]

\* C11: a step that emits a row emits the smallest buffered key and one slot
\* per source; slot i is source i's buffered record exactly when its key is
\* that smallest key and null otherwise; some slot is filled; a source whose
\* slot is filled ends with an empty buffer and the row's key as its last
\* emitted key; every other source keeps its buffered record, its last
\* emitted key and its end flag.
C11_RowConstruction ==
    [][RowPushed =>
        /\ BufferedKeys # {}
        /\ \A k \in BufferedKeys : LastRow[1] <= k
        /\ LastRow[1] \in BufferedKeys
        /\ Len(LastRow) = NSources + 1
        /\ \E i \in Sources : Slot(LastRow, i) # NoRec
        /\ \A i \in Sources :
              LET rec == BufferedAfterPull(i)
                  filled == rec # NoRec /\ JoinField(rec) = LastRow[1]
              IN  /\ Slot(LastRow, i) = IF filled THEN rec ELSE NoRec
                  /\ js_sources'[i].src_done = js_sources[i].src_done
                  /\ IF filled
                     THEN /\ js_sources'[i].src_next = NoRec
                          /\ js_sources'[i].src_next_join = Null
                          /\ js_sources'[i].src_last_join = LastRow[1]
                     ELSE /\ js_sources'[i].src_next = rec
                          /\ js_sources'[i].src_next_join =
                                IF rec = NoRec THEN Null ELSE JoinField(rec)
                          /\ js_sources'[i].src_last_join =
                                js_sources[i].src_last_join
    ]_vars

\* A row was just emitted with one slot filled while the other source keeps
\* a buffered record with a larger key.
C11_Witness ==
    /\ pc = "push"
    /\ \E i, j \in Sources :
          /\ Slot(output[Len(output)], i) # NoRec
          /\ Slot(output[Len(output)], j) = NoRec
          /\ js_sources[j].src_next # NoRec
          /\ js_sources[j].src_next_join > output[Len(output)][1]
          /\ js_sources[i].src_last_join = output[Len(output)][1]

(* ------------------------------ JS strings ----------------------------- *)
\* A string is a sequence of one-character strings.  The conversions below
\* are defined on texts made of digits, sign, point, space, quote and
\* letters other than the ones of exponents, radix prefixes and Infinity.

DigitChars == <<"0", "1", "2", "3", "4", "5", "6", "7", "8", "9">>

IsDigit(c) == \E n \in 1 .. Len(DigitChars) : DigitChars[n] = c

DigitValue(c) == (CHOOSE n \in 1 .. Len(DigitChars) : DigitChars[n] = c) - 1

\* JS NaN where a number is expected; <<n>> is the number n
NaN == <<>>

RECURSIVE DigitsValueFrom(_, _)
DigitsValueFrom(s, acc) ==
    IF s = <<>> THEN acc
    ELSE DigitsValueFrom(Tail(s), 10 * acc + DigitValue(Head(s)))

\* value of a run of decimal digits, 0 for the empty run
DigitsValue(s) == DigitsValueFrom(s, 0)

RECURSIVE DigitPrefixLen(_)
DigitPrefixLen(s) ==
    IF s = <<>> \/ ~IsDigit(Head(s)) THEN 0 ELSE 1 + DigitPrefixLen(Tail(s))

AllDigits(s) == \A n \in 1 .. Len(s) : IsDigit(s[n])

RECURSIVE TrimLeft(_)
TrimLeft(s) == IF s # <<>> /\ Head(s) = " " THEN TrimLeft(Tail(s)) ELSE s

RECURSIVE TrimRight(_)
TrimRight(s) ==
    IF s # <<>> /\ s[Len(s)] = " "
    THEN TrimRight(SubSeq(s, 1, Len(s) - 1))
    ELSE s

\* String.prototype.trim
Trim(s) == TrimRight(TrimLeft(s))

HasSign(s) == s # <<>> /\ Head(s) \in {"+", "-"}

Unsigned(s) == IF HasSign(s) THEN Tail(s) ELSE s

\* parseInt(s, 10): optional sign, then the longest run of digits; NaN when
\* there is no digit.  What follows the digits is ignored.
ParseInt(s) ==
    LET body == Unsigned(TrimLeft(s))
        n == DigitPrefixLen(body)
        v == DigitsValue(SubSeq(body, 1, n))
    IN  IF n = 0 THEN NaN
        ELSE IF HasSign(TrimLeft(s)) /\ Head(TrimLeft(s)) = "-" THEN <<0 - v>>
        ELSE <<v>>

\* Number(s) == n for an integer n: the whole trimmed text must be a decimal
\* literal (sign, digits, optional point and fraction digits), the empty
\* text is 0, anything else is NaN.
NumberEquals(s, n) ==
    LET t == Trim(s)
        body == Unsigned(t)
        ip == DigitPrefixLen(body)
        rest == SubSeq(body, ip + 1, Len(body))
        frac == IF rest = <<>> THEN <<>> ELSE Tail(rest)
        valid == \/ (ip > 0 /\ rest = <<>>)
                 \/ /\ rest # <<>>
                    /\ Head(rest) = "."
                    /\ AllDigits(frac)
                    /\ (ip > 0 \/ frac # <<>>)
        v == DigitsValue(SubSeq(body, 1, ip))
    IN  IF t = <<>> THEN n = 0
        ELSE /\ valid
             /\ \A k \in 1 .. Len(frac) : frac[k] = "0"
             /\ n = IF Head(t) = "-" THEN 0 - v ELSE v

\* str != n, string against number: the string is converted to a number
LooseNotEqual(s, n) == ~NumberEquals(s, n)

\* the JSON number grammar: -? (0 | [1-9][0-9]*) (. [0-9]+)?
IsJsonNumber(t) ==
    LET body == IF t # <<>> /\ Head(t) = "-" THEN Tail(t) ELSE t
        ip == DigitPrefixLen(body)
        rest == SubSeq(body, ip + 1, Len(body))
    IN  /\ ip > 0
        /\ (ip > 1 => Head(body) # "0")
        /\ \/ rest = <<>>
           \/ /\ Head(rest) = "."
              /\ Len(rest) > 1
              /\ AllDigits(Tail(rest))

\* JSON.parse(text): what it throws or returns, for a text that is a string
\* literal without escapes, a number, a literal name or none of these
JsonParse(text) ==
    LET t == Trim(text)
    IN  IF /\ Len(t) >= 2
           /\ t[1] = "\""
           /\ t[Len(t)] = "\""
           /\ \A n \in 2 .. (Len(t) - 1) : t[n] \notin {"\"", "\\"}
        THEN [threw |-> FALSE, type |-> "string",
              value |-> SubSeq(t, 2, Len(t) - 1)]
        ELSE IF IsJsonNumber(t)
        THEN [threw |-> FALSE, type |-> "number", value |-> t]
        ELSE IF t \in {<<"t", "r", "u", "e">>, <<"f", "a", "l", "s", "e">>,
                       <<"n", "u", "l", "l">>}
        THEN [threw |-> FALSE, type |-> "object", value |-> t]
        ELSE [threw |-> TRUE, type |-> "undefined", value |-> <<>>]

(* ----------------------------- SplitStream ----------------------------- *)

RECURSIVE FirstSpace(_, _)
FirstSpace(s, n) ==
    IF n > Len(s) THEN 0 ELSE IF s[n] = " " THEN n ELSE FirstSpace(s, n + 1)

\* mod_strsplit(line, /\s+/, 2): the text before the first run of whitespace
\* and the whole rest after it, or the text alone when it has no whitespace
StrSplit2(s) ==
    LET k == FirstSpace(s, 1)
    IN  IF k = 0 THEN <<s>>
        ELSE <<SubSeq(s, 1, k - 1), TrimLeft(SubSeq(s, k, Len(s)))>>

NoWarning == ""

\* isNaN(count) || parts[0].toString() != count
CountRejected(field, count) ==
    count = NaN \/ LooseNotEqual(field, count[1])

\* SplitStream.prototype._transform: the record it pushes, if any, and the
\* kind of the warning it emits, if any
SplitParse(line) ==
    LET parts == StrSplit2(Trim(line))
        count == ParseInt(parts[1])
        str == JsonParse(parts[2])
    IN  IF Len(parts) # 2
        THEN [pushed |-> <<>>, warned |-> "line garbled"]
        ELSE IF CountRejected(parts[1], count)
        THEN [pushed |-> <<>>, warned |-> "not an integer"]
        ELSE IF str.threw
        THEN [pushed |-> <<>>, warned |-> "invalid JSON"]
        ELSE IF str.type # "string"
        THEN [pushed |-> <<>>, warned |-> "not a string"]
        ELSE [pushed |-> << <<count[1], parts[2]>> >>, warned |-> NoWarning]

SplitTransform_Silent ==
    /\ sp_input # <<>>
    /\ sp_input' = Tail(sp_input)
    /\ sp_pushed' = sp_pushed \o SplitParse(Head(sp_input)).pushed
    /\ UNCHANGED <<sp_warned, nwarnings>>
    /\ event' = "split"
    /\ UNCHANGED <<inputs, src_arrived, src_taken, js_sources, js_waiting,
                   js_working, pc, output, eofs, err, demand>>
    /\ UNCHANGED <<done, report, src_rejects, exit_status, auditvars, extvars, libvars>>

\* One SplitStream is given the next line of its file.
SplitTransform ==
    /\ sp_input # <<>>
    /\ sp_input' = Tail(sp_input)
    /\ sp_pushed' = sp_pushed \o SplitParse(Head(sp_input)).pushed
    /\ IF SplitParse(Head(sp_input)).warned # NoWarning
       THEN /\ sp_warned' = Append(sp_warned, SplitParse(Head(sp_input)).warned)
            /\ StreamWarn
       ELSE UNCHANGED <<sp_warned, nwarnings>>
    /\ event' = "split"
    /\ UNCHANGED <<inputs, src_arrived, src_taken, js_sources, js_waiting,
                   js_working, pc, output, eofs, err, demand>>
    /\ UNCHANGED <<done, report, src_rejects, exit_status, auditvars, extvars, libvars>>

(* ------------------ AuditStream on the rows of a join ------------------ *)

\* sequences of records with counts, sorted by key, one record per key
CountedInputs ==
    { s \in SeqsUpTo(Counts \X Keys, MaxLen) :
        \A p \in 2 .. Len(s) : s[p - 1][2] < s[p][2] }

\* JoinStream has read both sources to their end and pushed every row and
\* the end-of-stream; AuditStream has not been given a row yet.
AuditInit ==
    /\ inputs \in [Sources -> CountedInputs]
    /\ src_arrived = [i \in Sources |-> Len(inputs[i])]
    /\ src_taken = [i \in Sources |-> Len(inputs[i])]
    /\ js_sources =
          [i \in Sources |->
              [src_next |-> NoRec, src_next_join |-> Null,
               src_last_join |-> IF inputs[i] = <<>> THEN Null
                                 ELSE KeyAt(i, Len(inputs[i])),
               src_done |-> TRUE]]
    /\ js_waiting = FALSE
    /\ js_working = FALSE
    /\ pc = "idle"
    /\ output = ExpectedRows
    /\ eofs = 1
    /\ err = NoErr
    /\ demand = TRUE
    /\ event = "pushedeof"
    /\ MainStart
    /\ src_rejects = [i \in Sources |-> 0]
    /\ \E verbose \in BOOLEAN : AuditStart(verbose)
    /\ SplitUnused
    /\ ExtractorUnused
    /\ LibraryUnused("")

AuditNext ==
    \/ AuditTransform
    \/ EndReport
    \/ ProcessExit

AuditSpec == AuditInit /\ [][AuditNext]_vars

\* the row a step of _transform is given, and the diagnostics it adds
RowTransformed == as_ninputs' = as_ninputs + 1
RowGiven == output[as_ninputs + 1]
Added == SubSeq(stdout', Len(stdout) + 1, Len(stdout'))
RawPresent == Slot(RowGiven, 0) # NoRec
ReportedPresent == Slot(RowGiven, 1) # NoRec
Raw == Slot(RowGiven, 0)[1]
Reported == Slot(RowGiven, 1)[1]

\* the decision table of the classifier
TableStatus ==
    IF RawPresent /\ ReportedPresent
    THEN IF Raw = Reported THEN "count okay" ELSE "error: count mismatch"
    ELSE IF RawPresent
    THEN IF Raw = 0 THEN "warn: missing optimized count"
         ELSE "error: count mismatch (no optimized count)"
    ELSE IF Reported = 0 THEN "warn: leaked optimized count"
         ELSE "error: count mismatch (no entries)"

C13_AtMostOneDiagnostic ==
    [][RowTransformed =>
        /\ Len(Added) =
              IF RawPresent /\ ReportedPresent /\ Raw = Reported /\ ~as_verbose
              THEN 0 ELSE 1
        /\ \A n \in 1 .. Len(Added) :
              Added[n].status = "count okay" => as_verbose
    ]_vars

\* With verbose off, a row with equal counts has been passed over silently
\* and a later row has produced a diagnostic.
C13_Witness ==
    /\ ~as_verbose
    /\ as_ninputs = 2
    /\ Len(stdout) = 1
    /\ Slot(output[1], 0) # NoRec
    /\ Slot(output[1], 1) # NoRec
    /\ Slot(output[1], 0)[1] = Slot(output[1], 1)[1]

(* --------------------------- the whole program ------------------------- *)

\* bound on the lines of one file that SplitStream rejects
MaxRejects == 1

\* raw counts 3 "a", 5 "b", 2 "c" and reported counts 3 "a", 0 "b", 7 "d"
EndToEndInputs ==
    [i \in Sources |->
        IF i = 0 THEN << <<3, 1>>, <<5, 2>>, <<2, 3>> >>
                 ELSE << <<3, 1>>, <<0, 2>>, <<7, 4>> >>]

\* raw counts 1 "b", 1 "a" (out of order) and reported count 1 "a"
DisorderedInputs ==
    [i \in Sources |->
        IF i = 0 THEN << <<1, 2>>, <<1, 1>> >> ELSE << <<1, 1>> >>]

\* raw count 0 "a" and no reported count
ZeroRawInputs == [i \in Sources |-> IF i = 0 THEN << <<0, 1>> >> ELSE <<>>]

Scenarios == {EndToEndInputs, DisorderedInputs, ZeroRawInputs}

\* main with two file names: either file may hold lines that SplitStream
\* rejects besides the records it delivers.
MainInit ==
    /\ inputs \in Scenarios
    /\ src_arrived = [i \in Sources |-> 0]
    /\ src_taken = [i \in Sources |-> 0]
    /\ js_sources = [i \in Sources |-> NewSource]
    /\ js_waiting = FALSE
    /\ js_working = FALSE
    /\ pc = "idle"
    /\ output = <<>>
    /\ eofs = 0
    /\ err = NoErr
    /\ demand = FALSE
    /\ event = "init"
    /\ MainStart
    /\ src_rejects \in [Sources -> 0 .. MaxRejects]
    /\ \E verbose \in BOOLEAN : AuditStart(verbose)
    /\ SplitUnused
    /\ ExtractorUnused
    /\ LibraryUnused("")

MainNext ==
    \/ Next
    \/ \E i \in Sources : SourceWarn(i)
    \/ AuditTransform
    \/ EndReport
    \/ ProcessExit

MainSpec == MainInit /\ [][MainNext]_vars

\* what a diagnostic says besides the directory
Summary(d) == <<d.ndirents, d.nreported, d.status>>

Summaries == [n \in 1 .. Len(stdout) |-> Summary(stdout[n])]

IsPrefix(s, t) == Len(s) <= Len(t) /\ s = SubSeq(t, 1, Len(s))

EndToEndRun == inputs = EndToEndInputs /\ ~as_verbose

EndToEnd_Claimed ==
    << <<5, 0, "error: count mismatch (no optimized count)">>,
       <<2, 0, "error: count mismatch (no optimized count)">>,
       <<0, 7, "error: count mismatch (no entries)">> >>

EndToEnd_Emitted ==
    << <<5, 0, "error: count mismatch">>,
       <<2, 0, "error: count mismatch (no optimized count)">>,
       <<0, 7, "error: count mismatch (no entries)">> >>

\* C14 as stated: the non-verbose run on the end-to-end inputs emits, in
\* order, nothing for a, then for b 5/0 'error: count mismatch (no optimized
\* count)', for c 2/0 'error: count mismatch (no optimized count)', for d 0/7
\* 'error: count mismatch (no entries)'.
C14_EndToEnd_Original ==
    EndToEndRun =>
        /\ IsPrefix(Summaries, EndToEnd_Claimed)
        /\ done => Summaries = EndToEnd_Claimed

\* C14: the non-verbose run on the end-to-end inputs emits, in order,
\* nothing for a, then for b 5/0 'error: count mismatch' (b has a reported
\* count, of 0), for c 2/0 'error: count mismatch (no optimized count)', for
\* d 0/7 'error: count mismatch (no entries)'.
C14_EndToEnd ==
    EndToEndRun =>
        /\ IsPrefix(Summaries, EndToEnd_Emitted)
        /\ done => Summaries = EndToEnd_Emitted

\* The end-to-end run has finished with its three diagnostics.
C14_Witness ==
    /\ EndToEndRun
    /\ done
    /\ Len(stdout) = 3
    /\ as_ninputs = 4

(* ----------------------- C15, C16: the diagnostics --------------------- *)

\* C15: the dirname of every diagnostic is the decoded string value of the
\* row's key, the result of parsing the key's JSON string literal.
C15_DirnameDecoded ==
    [][RowTransformed =>
        \A n \in 1 .. Len(Added) :
            Added[n].dirname = JsonParse(KeyLiteral(RowGiven[1])).value
    ]_vars

DocumentedStates ==
    {"count okay", "warn: leaked optimized count",
     "error: count mismatch (no optimized count)",
     "error: count mismatch (no entries)", "error: count mismatch"}

\* C16: every diagnostic carries one of the five states documented for
\* dircount-audit.
C16_DocumentedStates ==
    \A n \in 1 .. Len(stdout) : stdout[n].status \in DocumentedStates

(* ---------------------- one SplitStream on its own --------------------- *)

\* bounds on the length of a line and on the lines of a file
MaxLine == 6
MaxLines == 2

Alphabet == {" ", "\"", "0", "5", "+", "-", "."}

Lines == SeqsUpTo(Alphabet, MaxLine)

SampleLines ==
    { <<"5", " ", "\"", "a", "\"">>,
      <<"5", " ", "b", "o", "g", "u", "s">>,
      <<"0", "5", " ", "\"", "a", "\"">>,
      <<"+", "5", " ", "\"", "a", "\"">>,
      <<"5", "a", " ", "\"", "a", "\"">>,
      <<"5", " ", "7">>,
      <<"b", "o", "g", "u", "s">> }

\* A SplitStream is about to read a file: one line over the alphabet, or up
\* to MaxLines of the sample lines.
ParseInit ==
    /\ sp_input \in { <<l>> : l \in Lines } \cup SeqsUpTo(SampleLines, MaxLines)
    /\ sp_pushed = <<>>
    /\ sp_warned = <<>>
    /\ inputs = [i \in Sources |-> <<>>]
    /\ src_arrived = [i \in Sources |-> 0]
    /\ src_taken = [i \in Sources |-> 0]
    /\ js_sources = [i \in Sources |-> NewSource]
    /\ js_waiting = FALSE
    /\ js_working = FALSE
    /\ pc = "idle"
    /\ output = <<>>
    /\ eofs = 0
    /\ err = NoErr
    /\ demand = FALSE
    /\ event = "init"
    /\ MainStart
    /\ src_rejects = [i \in Sources |-> 0]
    /\ AuditStart(FALSE)
    /\ ExtractorUnused
    /\ LibraryUnused("")

ParseNext == SplitTransform

ParseSpec == ParseInit /\ [][ParseNext]_vars

LineGiven == Head(sp_input)
LineTransformed == sp_input # <<>> /\ sp_input' = Tail(sp_input)
FieldsGiven == StrSplit2(Trim(LineGiven))
NewRecords == SubSeq(sp_pushed', Len(sp_pushed) + 1, Len(sp_pushed'))
NewWarnings == SubSeq(sp_warned', Len(sp_warned) + 1, Len(sp_warned'))

\* a non-negative decimal integer as String(n) writes it
Canonical(field) ==
    /\ field # <<>>
    /\ AllDigits(field)
    /\ (Len(field) > 1 => Head(field) # "0")

\* C17: the first field of a line of two fields is accepted as the count
\* exactly when it is a canonical non-negative decimal integer; a field with
\* leading zeros, a sign, a fractional part or non-numeric text is rejected
\* with the 'not an integer' warning and yields no record.
C17_CanonicalCount ==
    [][(LineTransformed /\ Len(FieldsGiven) = 2) =>
        IF Canonical(FieldsGiven[1])
        THEN "not an integer" \notin { NewWarnings[n] : n \in 1 .. Len(NewWarnings) }
        ELSE NewWarnings = <<"not an integer">> /\ NewRecords = <<>>
    ]_vars

WarningKinds == {"line garbled", "not an integer", "invalid JSON", "not a string"}

\* C18: a line yields either one record and no warning, or one warning of
\* the four kinds and no record; the rest of the file is still to be parsed,
\* and the count of warnings grows by one exactly for a rejected line.
C18_OneOutcomePerLine ==
    [][LineTransformed =>
        /\ \/ /\ Len(NewRecords) = 1
              /\ NewWarnings = <<>>
              /\ nwarnings' = nwarnings
           \/ /\ NewRecords = <<>>
              /\ Len(NewWarnings) = 1
              /\ NewWarnings[1] \in WarningKinds
              /\ nwarnings' = nwarnings + 1
        /\ nwarnings = Len(sp_warned)
        /\ nwarnings' = Len(sp_warned')
    ]_vars

\* The line 5 bogus has been rejected with one warning and the line after it
\* has yielded its record.
C18_Witness ==
    /\ sp_input = <<>>
    /\ nwarnings = 1
    /\ sp_warned = <<"invalid JSON">>
    /\ sp_pushed = << <<5, <<"\"", "a", "\"">>>> >>

(* --------------------- C19: how a run of main ends --------------------- *)

Exited == pc = "exited"

\* what the caller sees: the exit status and the report on stderr
CompletedClean == exit_status = 0 /\ report = 0
CompletedWithWarnings == exit_status = 1 /\ report > 0
FatalError == exit_status = 1 /\ report = NoReport

\* C19: a run that has ended has ended in exactly one of three outcomes
\* that differ in what the caller sees: completed with no warning (status 0,
\* 'warnings: 0'), completed with warnings (status 1, 'warnings: n', n the
\* warnings counted), or a fatal error (status 1 and no report); once the
\* fatal error is emitted no report is printed and done is never set.
C19_ThreeOutcomes ==
    /\ Exited =>
          \/ CompletedClean /\ done /\ ~Failed /\ nwarnings = 0
          \/ CompletedWithWarnings /\ done /\ ~Failed /\ report = nwarnings
          \/ FatalError /\ ~done /\ Failed
    /\ ~(CompletedClean /\ CompletedWithWarnings)
    /\ ~(CompletedClean /\ FatalError)
    /\ ~(CompletedWithWarnings /\ FatalError)
    /\ Failed => (Exited /\ report = NoReport /\ ~done)
    /\ pc \notin {"assert_kick", "assert_eof", "assert_emit"}

\* A run has ended in a fatal error after a line had been rejected.
C19_Witness ==
    /\ Exited
    /\ FatalError
    /\ nwarnings > 0
    /\ Len(stdout) > 0

(* ------------------- pgjxfields.js: ExtractorStream -------------------- *)

\* bounds on the objects on stdin and on the fields asked for
MaxObjects == 3
MaxFields == 2

\* A value parsed from a line of stdin.  An object has or lacks an array
\* 'keys' and has or lacks an array 'entry'; anything else is not an object.
NotAnObject ==
    [isobj |-> FALSE, haskeys |-> FALSE, keys |-> <<>>,
     hasentry |-> FALSE, entry |-> <<>>]

Header(keys) ==
    [isobj |-> TRUE, haskeys |-> TRUE, keys |-> keys,
     hasentry |-> FALSE, entry |-> <<>>]

Row(entry) ==
    [isobj |-> TRUE, haskeys |-> FALSE, keys |-> <<>>,
     hasentry |-> TRUE, entry |-> entry]

EmptyObject ==
    [isobj |-> TRUE, haskeys |-> FALSE, keys |-> <<>>,
     hasentry |-> FALSE, entry |-> <<>>]

\* a JS number, held as its decimal digits, and a JS string
Num(digits) == [type |-> "number", v |-> digits]
Str(s) == [type |-> "string", v |-> s]

Objects ==
    { NotAnObject, EmptyObject,
      Header(<< <<"a">>, <<"b">> >>),
      Row(<< Num(<<"7">>), Str(<<"x">>) >>),
      Row(<< Str(<<"0", "5">>), Num(<<"7">>) >>),
      Row(<< Num(<<"7">>) >>) }

\* process.argv.slice(2): a field is its name, or name@type
FieldArgs ==
    { <<"a">>, <<"b", "@", "number">>, <<"a", "@", "string">>, <<"c">>,
      <<"b", "@", "date">> }

RECURSIVE LastIndexOf(_, _, _)
\* f.lastIndexOf(c), from position n down; -1 when c is not in f
LastIndexOf(f, c, n) ==
    IF n = 0 THEN -1
    ELSE IF f[n] = c THEN n - 1
    ELSE LastIndexOf(f, c, n - 1)

\* f.substr(0, lat), or f when it has no '@'
FieldName(f) ==
    LET lat == LastIndexOf(f, "@", Len(f))
    IN  IF lat # -1 THEN SubSeq(f, 1, lat) ELSE f

\* f.substr(lat + 1), or 'string' when f has no '@'
FieldType(f) ==
    LET lat == LastIndexOf(f, "@", Len(f))
    IN  IF lat # -1 THEN SubSeq(f, lat + 2, Len(f)) ELSE <<"string">>

RECURSIVE IndexOfFrom(_, _, _)
IndexOfFrom(keys, f, n) ==
    IF n > Len(keys) THEN -1
    ELSE IF keys[n] = f THEN n - 1
    ELSE IndexOfFrom(keys, f, n + 1)

\* obj['keys'].indexOf(f)
IndexOf(keys, f) == IndexOfFrom(keys, f, 1)

HeaderIndexes(obj, fieldnames) ==
    [j \in 1 .. Len(fieldnames) |-> IndexOf(obj.keys, FieldName(fieldnames[j]))]

HeaderTypes(fieldnames) ==
    [j \in 1 .. Len(fieldnames) |-> FieldType(fieldnames[j])]

HeaderError_TypesUnchecked(obj, fieldnames) ==
    IF ~obj.haskeys
    THEN "header row has no \"keys\""
    ELSE IF \E j \in 1 .. Len(fieldnames) : HeaderIndexes(obj, fieldnames)[j] = -1
    THEN "no such field(s)"
    ELSE NoMessage

\* The error _transform gives to callback for the first row, if any
HeaderError(obj, fieldnames) ==
    IF ~obj.haskeys
    THEN "header row has no \"keys\""
    ELSE IF \E j \in 1 .. Len(fieldnames) : HeaderIndexes(obj, fieldnames)[j] = -1
    THEN "no such field(s)"
    ELSE IF \E j \in 1 .. Len(fieldnames) :
               HeaderTypes(fieldnames)[j] \notin {<<"number">>, <<"string">>}
    THEN "unknown type(s)"
    ELSE NoMessage

\* Number(rawvalue) for a number, or for a string of digits or other text
\* without sign, point or exponent
ToNumber(value) ==
    IF AllDigits(value.v) THEN <<DigitsValue(value.v)>> ELSE NaN

RECURSIVE Render(_)
\* String(n) for n >= 0
Render(n) ==
    IF n < 10 THEN <<DigitChars[n + 1]>>
    ELSE Render(n \div 10) \o <<DigitChars[(n % 10) + 1]>>

\* JSON.stringify of a number or of a string without quotes and backslashes
Stringify(value) ==
    IF value.type = "number" THEN Render(DigitsValue(value.v))
    ELSE <<"\"">> \o value.v \o <<"\"">>

\* the values.map callback of _transform: the text of field j, or NaN for the
\* 'bad number' error
FieldText(obj, indexes, types, j) ==
    LET rawvalue == obj.entry[indexes[j] + 1]
    IN  IF types[j] = <<"number">>
        THEN IF ToNumber(rawvalue) = NaN THEN NaN
             ELSE Render(ToNumber(rawvalue)[1])
        ELSE Stringify(rawvalue)

\* ExtractorStream.prototype._transform on the next object.  callback(err)
\* emits 'error', whose listener mod_cmdutil.fail exits the process: nothing
\* runs after it, the second call of callback of the 'unknown type' path
\* included.
ExtractorTransform ==
    /\ es_error = NoMessage
    /\ es_ninputs < Len(es_input)
    /\ es_ninputs' = es_ninputs + 1
    /\ LET obj == es_input[es_ninputs + 1]
           fields == 1 .. Len(es_fieldnames)
       IN  IF ~obj.isobj
           THEN /\ es_warned' = Append(es_warned, "not an object")
                /\ UNCHANGED <<es_indexes, es_types, es_out, es_error>>
           ELSE IF es_indexes = NoIndexes
           THEN /\ es_error' = HeaderError(obj, es_fieldnames)
                /\ es_warned' = IF ~obj.haskeys
                                THEN Append(es_warned, "missing \"keys\"")
                                ELSE es_warned
                /\ IF obj.haskeys
                   THEN /\ es_indexes' = HeaderIndexes(obj, es_fieldnames)
                        /\ es_types' = HeaderTypes(es_fieldnames)
                   ELSE UNCHANGED <<es_indexes, es_types>>
                /\ UNCHANGED es_out
           ELSE IF ~obj.hasentry
           THEN /\ es_warned' = Append(es_warned, "missing \"entry\"")
                /\ UNCHANGED <<es_indexes, es_types, es_out, es_error>>
           ELSE IF \E j \in fields : es_indexes[j] >= Len(obj.entry)
           THEN /\ es_warned' = Append(es_warned, "missing value")
                /\ UNCHANGED <<es_indexes, es_types, es_out, es_error>>
           ELSE IF \E j \in fields : FieldText(obj, es_indexes, es_types, j) = NaN
           THEN /\ es_warned' = Append(es_warned, "bad number")
                /\ UNCHANGED <<es_indexes, es_types, es_out, es_error>>
           ELSE /\ es_out' = Append(es_out,
                                [j \in fields |->
                                    FieldText(obj, es_indexes, es_types, j)])
                /\ UNCHANGED <<es_indexes, es_types, es_warned, es_error>>
    /\ event' = "extract"
    /\ UNCHANGED <<es_fieldnames, es_input>>
    /\ UNCHANGED <<inputs, src_arrived, src_taken, js_sources, js_waiting,
                   js_working, pc, output, eofs, err, demand>>
    /\ UNCHANGED <<mainvars, exit_status, auditvars, splitvars, libvars>>

\* node pgjxfields.js FIELD... with the parsed lines of stdin
ExtractorInit ==
    /\ es_fieldnames \in SeqsUpTo(FieldArgs, MaxFields)
    /\ es_input \in SeqsUpTo(Objects, MaxObjects)
    /\ es_indexes = NoIndexes
    /\ es_types = <<>>
    /\ es_ninputs = 0
    /\ es_out = <<>>
    /\ es_warned = <<>>
    /\ es_error = NoMessage
    /\ inputs = [i \in Sources |-> <<>>]
    /\ src_arrived = [i \in Sources |-> 0]
    /\ src_taken = [i \in Sources |-> 0]
    /\ js_sources = [i \in Sources |-> NewSource]
    /\ js_waiting = FALSE
    /\ js_working = FALSE
    /\ pc = "idle"
    /\ output = <<>>
    /\ eofs = 0
    /\ err = NoErr
    /\ demand = FALSE
    /\ event = "init"
    /\ MainStart
    /\ src_rejects = [i \in Sources |-> 0]
    /\ AuditStart(FALSE)
    /\ SplitUnused
    /\ LibraryUnused("")

ExtractorNext == ExtractorTransform

ExtractorSpec == ExtractorInit /\ [][ExtractorNext]_vars

\* position in es_input of the first object, the header; 0 when there is none
HeaderAt ==
    IF \E n \in 1 .. Len(es_input) : es_input[n].isobj
    THEN CHOOSE n \in 1 .. Len(es_input) :
            /\ es_input[n].isobj
            /\ \A k \in 1 .. (n - 1) : ~es_input[k].isobj
    ELSE 0

\* the header lacks a keys array, or a requested name is not among its keys,
\* or a requested type is neither number nor string
MalformedHeader ==
    /\ HeaderAt > 0
    /\ LET h == es_input[HeaderAt]
       IN  \/ ~h.haskeys
           \/ \E j \in 1 .. Len(es_fieldnames) :
                 \/ \A n \in 1 .. Len(h.keys) :
                       h.keys[n] # FieldName(es_fieldnames[j])
                 \/ FieldType(es_fieldnames[j]) \notin {<<"number">>, <<"string">>}

\* C20: with a malformed header no output line is ever emitted, and once
\* the header has been given to _transform the run has failed and no later
\* object is processed.
C20_MalformedHeaderIsFatal ==
    MalformedHeader =>
        /\ es_out = <<>>
        /\ es_ninputs <= HeaderAt
        /\ es_ninputs = HeaderAt => es_error # NoMessage

\* A header naming an unknown type has been rejected with rows still waiting
\* behind it.
C20_Witness ==
    /\ MalformedHeader
    /\ es_error = "unknown type(s)"
    /\ es_ninputs = HeaderAt
    /\ \E n \in (HeaderAt + 1) .. Len(es_input) : es_input[n].hasentry

(* ------------------ C22, C24: the guards of kick ----------------------- *)

\* C22: kick is entered only with js_waiting and js_working both false, the
\* two flags are never true together, and the assertions at the top of kick
\* never fail, whatever the order of _read calls (also during a push),
\* 'readable' events and 'end' events.
C22_KickGuards ==
    /\ pc = "kick" => (~js_waiting /\ ~js_working)
    /\ ~(js_waiting /\ js_working)
    /\ pc # "assert_kick"

\* _read has been called during a push, while js_working is set.
C22_Witness ==
    /\ pc = "push"
    /\ js_working
    /\ event = "read"
    /\ Len(output) > 1

Pulled(i) == src_taken'[i] = src_taken[i] + 1

\* C24: a call of kick raises the 'out of order' error for a record it pulls
\* from a source exactly when the record's key is strictly smaller than the
\* last key emitted for that source; a source's first record and a record
\* whose key equals the last emitted key are accepted.
C24_OrderCheck ==
    [][pc = "kick" =>
        /\ \A i \in Sources :
              Pulled(i) =>
                 ((err' = i) <=>
                     /\ js_sources[i].src_last_join # Null
                     /\ KeyAt(i, src_taken'[i]) < js_sources[i].src_last_join)
        /\ err' # NoErr => Pulled(err')
    ]_vars

\* A record with the key of the row emitted before it has been pulled and
\* buffered without an error.
C24_Witness ==
    /\ err = NoErr
    /\ \E i \in Sources :
          /\ src_taken[i] >= 2
          /\ js_sources[i].src_next = inputs[i][src_taken[i]]
          /\ js_sources[i].src_last_join = KeyAt(i, src_taken[i])

(* ---------------- C23: the 'exit' listener of main --------------------- *)

\* status of a process ended by process.abort() (SIGABRT)
Aborted == 134

PrematureExit_Undetected ==
    /\ pc = "idle"
    /\ ~done
    /\ pc' = "exited"
    /\ exit_status' = 0
    /\ event' = "exit"
    /\ UNCHANGED <<inputs, src_arrived, src_taken, js_sources, js_waiting,
                   js_working, output, eofs, err, demand>>
    /\ UNCHANGED <<mainvars, auditvars, splitvars, extvars, libvars>>

\* The event loop runs empty before endReport has run (the framework has
\* stopped calling _read, or a stream has stalled): node is about to exit
\* with code 0, the 'exit' listener finds done unset and calls
\* process.abort().
PrematureExit ==
    /\ pc = "idle"
    /\ ~done
    /\ pc' = "exited"
    /\ exit_status' = Aborted
    /\ event' = "exit"
    /\ UNCHANGED <<inputs, src_arrived, src_taken, js_sources, js_waiting,
                   js_working, output, eofs, err, demand>>
    /\ UNCHANGED <<mainvars, auditvars, splitvars, extvars, libvars>>

\* main under a framework that may let the event loop run empty at any time
\* the program is at rest
StallSpec ==
    /\ MainInit
    /\ [][
          \/ MainNext
          \/ PrematureExit
       ]_vars

\* C23: the process has exited with status 0 only if joinstream has ended,
\* AuditStream has transformed every row and endReport has run (done is
\* set and the report is printed); an exit with code 0 before that is
\* turned into an abort.
C23_NoSilentPrematureExit ==
    exit_status = 0 =>
        /\ done
        /\ report # NoReport
        /\ eofs > 0
        /\ as_ninputs = Len(output)
        /\ \A i \in Sources : src_taken[i] = Len(inputs[i])

\* The process has aborted with records of a source still unread.
C23_Witness ==
    /\ exit_status = Aborted
    /\ ~done
    /\ Len(output) > 0
    /\ \E i \in Sources : src_taken[i] < Len(inputs[i])

(* ------------------ lib/dcaudit.js: launchDcAuditJob ------------------- *)

\* bounds of the launch model
MaxEntries == 2      \* directory entries listed under the dump path
MaxJobs == 2         \* jobs already in the jobs list

Stages_AlwaysAddInput(dryRun) ==
    <<"stageCheckNodeModules", "stageListShardFiles", "stageCheckShardFiles",
      "stageAssetUpload", "stageJobCreate", "stageJobsListFetch",
      "stageJobsListUpdate", "stageJobAddInput", "stageJobEndInput">>

\* the "stages" array handed to vasync.pipeline
Stages(dryRun) ==
    <<"stageCheckNodeModules", "stageListShardFiles", "stageCheckShardFiles",
      "stageAssetUpload", "stageJobCreate", "stageJobsListFetch",
      "stageJobsListUpdate">> \o
    (IF dryRun THEN <<"stageJobDryRun">>
               ELSE <<"stageJobAddInput", "stageJobEndInput">>)

CheckShardFilesFails_Never(a) == FALSE

\* stageCheckShardFiles: an error unless both table backups were found
CheckShardFilesFails(a) == ~a.entry_manta \/ ~a.entry_dircounts

RECURSIVE PipelineNext(_, _)
RECURSIVE StartStage(_)

\* vasync.pipeline calls the next function of the array.  The stages that
\* wait for nothing (stageCheckShardFiles, stageJobDryRun) call back before
\* they return; the others leave a request pending.
StartStage(l) ==
    LET name == Stages(l.aj.dryRun)[l.aj.ndone + 1]
        s == [l EXCEPT !.aj.started = Append(@, name)]
    IN  IF name = "stageCheckShardFiles"
        THEN PipelineNext(s, CheckShardFilesFails(s.aj))
        ELSE IF name = "stageJobDryRun"
        THEN PipelineNext(s, FALSE)
        ELSE [s EXCEPT !.aj.pending = name]

\* The callback vasync.pipeline hands to each stage.  It throws when it is
\* invoked after the pipeline has completed; otherwise it records the
\* stage's result and either completes the pipeline (an error, or the last
\* stage) or starts the next stage.
PipelineNext(l, failed) ==
    IF l.aj.nerrors > 0 \/ l.aj.ndone >= Len(Stages(l.aj.dryRun))
    THEN [l EXCEPT !.aj.thrown = TRUE, !.aj.pending = "none"]
    ELSE LET s == [l EXCEPT !.aj.ndone = @ + 1,
                            !.aj.nerrors = IF failed THEN @ + 1 ELSE @,
                            !.aj.pending = "none"]
         IN  IF failed
             THEN [s EXCEPT !.calls = Append(@, "err")]
             ELSE IF s.aj.ndone = Len(Stages(s.aj.dryRun))
             THEN [s EXCEPT !.calls = Append(@, "ok")]
             ELSE StartStage(s)

\* the launch as one value: op, the service, the caller's callback
Current == [aj |-> aj, manta |-> manta, calls |-> aj_calls]

Becomes(l) ==
    /\ aj' = l.aj
    /\ manta' = l.manta
    /\ aj_calls' = l.calls
    /\ UNCHANGED <<mrl, metering, mrl_calls, dl, dl_calls, setcmp, r>>
    /\ UNCHANGED <<joinvars, mainvars, exit_status, auditvars, splitvars, extvars>>

\* entries manta.ls can report under the dump path
Listings ==
    {S \in SUBSET [type : {"object", "directory"},
                   prefix : {"manta-", "manta_directory_counts-", "moray-"},
                   gz : BOOLEAN] :
        Cardinality(S) <= MaxEntries}

\* the 'entry' listener of stageListShardFiles
IsBackup(entry, prefix) ==
    entry.type = "object" /\ entry.gz /\ entry.prefix = prefix

\* the callback of fs.stat in stageCheckNodeModules.  When node_modules is
\* missing it calls subcallback with an error and, there being no return,
\* once more without.
StageCheckNodeModulesDone ==
    /\ aj.pending = "stageCheckNodeModules"
    /\ \E code \in {"ok", "ENOENT", "EIO"} :
          Becomes(IF code = "ok" THEN PipelineNext(Current, FALSE)
                  ELSE IF code = "EIO" THEN PipelineNext(Current, TRUE)
                  ELSE PipelineNext(PipelineNext(Current, TRUE), FALSE))

\* the callback of manta.ls and the listeners of the lister
StageListShardFilesDone ==
    /\ aj.pending = "stageListShardFiles"
    /\ \/ Becomes(PipelineNext(Current, TRUE))
       \/ \E S \in Listings :
             Becomes(PipelineNext(
                 [Current EXCEPT
                     !.aj.entry_manta =
                         \E e \in S : IsBackup(e, "manta-"),
                     !.aj.entry_dircounts =
                         \E e \in S : IsBackup(e, "manta_directory_counts-")],
                 FALSE))

\* the callback of manta.put in stageAssetUpload, or an 'error' listener
StageAssetUploadDone ==
    /\ aj.pending = "stageAssetUpload"
    /\ \/ Becomes(PipelineNext(Current, TRUE))
       \/ Becomes(PipelineNext([Current EXCEPT !.manta.asset = TRUE], FALSE))

\* the callback of manta.createJob
StageJobCreateDone ==
    /\ aj.pending = "stageJobCreate"
    /\ \/ Becomes(PipelineNext(Current, TRUE))
       \/ Becomes(PipelineNext([Current EXCEPT !.manta.jobs = @ + 1,
                                               !.aj.jobpath = TRUE], FALSE))

\* the callback of fetchRawJobsList: a missing jobs list is an empty one
\* with a null etag
StageJobsListFetchDone ==
    /\ aj.pending = "stageJobsListFetch"
    /\ \/ Becomes(PipelineNext(Current, TRUE))
       \/ Becomes(PipelineNext(
             [Current EXCEPT
                 !.aj.jobslist =
                     IF manta.list_exists THEN manta.list_jobs ELSE 0,
                 !.aj.jobslist_etag =
                     IF manta.list_exists THEN manta.list_etag ELSE -1],
             FALSE))

\* the callback of manta.put in stageJobsListUpdate
StageJobsListUpdateDone ==
    /\ aj.pending = "stageJobsListUpdate"
    /\ \/ Becomes(PipelineNext(Current, TRUE))
       \/ Becomes(PipelineNext(
             [Current EXCEPT !.manta.list_exists = TRUE,
                             !.manta.list_jobs = aj.jobslist + 1,
                             !.manta.list_etag = @ + 1,
                             !.manta.listed = TRUE],
             FALSE))

\* the callback of manta.addJobKey
StageJobAddInputDone ==
    /\ aj.pending = "stageJobAddInput"
    /\ \/ Becomes(PipelineNext(Current, TRUE))
       \/ Becomes(PipelineNext([Current EXCEPT !.manta.keys = @ + 1], FALSE))

\* the callback of manta.endJob
StageJobEndInputDone ==
    /\ aj.pending = "stageJobEndInput"
    /\ \/ Becomes(PipelineNext(Current, TRUE))
       \/ Becomes(PipelineNext([Current EXCEPT !.manta.ended = TRUE], FALSE))

\* neither auditcounts.js nor pgjxfields.js runs in the library's process
AuditProgramsUnused ==
    /\ inputs = [i \in Sources |-> <<>>]
    /\ src_arrived = [i \in Sources |-> 0]
    /\ src_taken = [i \in Sources |-> 0]
    /\ js_sources = [i \in Sources |-> NewSource]
    /\ js_waiting = FALSE
    /\ js_working = FALSE
    /\ pc = "idle"
    /\ output = <<>>
    /\ eofs = 0
    /\ err = NoErr
    /\ demand = FALSE
    /\ event = "init"
    /\ MainStart
    /\ src_rejects = [i \in Sources |-> 0]
    /\ AuditStart(FALSE)
    /\ SplitUnused
    /\ ExtractorUnused

\* launchDcAuditJob has returned: the pipeline has started its first stage
LaunchInit ==
    /\ \E dryRun \in BOOLEAN, exists \in BOOLEAN, n \in 0..MaxJobs :
          /\ aj = StartStage([aj |-> [NoLaunch EXCEPT !.dryRun = dryRun],
                              manta |-> NoManta, calls |-> <<>>]).aj
          /\ manta = [NoManta EXCEPT
                         !.list_exists = exists,
                         !.list_jobs = IF exists THEN n ELSE 0,
                         !.list_etag = IF exists THEN 1 ELSE 0]
    /\ aj_calls = <<>>
    /\ AuditProgramsUnused
    /\ LibraryUnused("launchDcAuditJob")

LaunchSpec ==
    /\ LaunchInit
    /\ [][
          \/ StageCheckNodeModulesDone
          \/ StageListShardFilesDone
          \/ StageAssetUploadDone
          \/ StageJobCreateDone
          \/ StageJobsListFetchDone
          \/ StageJobsListUpdateDone
          \/ StageJobAddInputDone
          \/ StageJobEndInputDone
       ]_vars

(* --------------------------- C21, C25 ---------------------------------- *)

Succeeded(name) ==
    \E k \in 1..(aj.ndone - aj.nerrors) : aj.started[k] = name

Started(name) == \E k \in 1..Len(aj.started) : aj.started[k] = name

\* C21: with dryRun true no input key is ever added to the job and its
\* input is never ended (neither stage is even started), and when the
\* launch calls back without an error the job has been created and
\* recorded in the jobs list.
C21_DryRunAddsNoInput ==
    aj.dryRun =>
        /\ manta.keys = 0
        /\ ~manta.ended
        /\ ~Started("stageJobAddInput")
        /\ ~Started("stageJobEndInput")
        /\ aj_calls = <<"ok">> =>
              (manta.jobs = 1 /\ aj.jobpath /\ manta.listed)

C21_Witness ==
    /\ aj.dryRun
    /\ aj_calls = <<"ok">>
    /\ Started("stageJobDryRun")
    /\ manta.jobs = 1

\* C25: the stages started are always a prefix of the fixed list, every
\* stage but the last started has succeeded and a failure is the last thing
\* the pipeline does; a job exists only if both table backups were found,
\* and an input key only if the jobs list update succeeded.
C25_StagesInOrder ==
    /\ IsPrefix(aj.started, Stages(aj.dryRun))
    /\ aj.ndone <= Len(aj.started)
    /\ Len(aj.started) <= aj.ndone + 1
    /\ aj.nerrors <= 1
    /\ aj.nerrors = 1 => (aj.ndone = Len(aj.started) /\ aj.pending = "none")
    /\ manta.jobs > 0 =>
          (aj.entry_manta /\ aj.entry_dircounts
              /\ Succeeded("stageCheckShardFiles")
              /\ Succeeded("stageAssetUpload"))
    /\ manta.keys > 0 =>
          (manta.listed /\ Succeeded("stageJobsListUpdate"))
    /\ manta.ended => manta.keys > 0

C25_Witness ==
    /\ ~aj.dryRun
    /\ aj_calls = <<"ok">>
    /\ aj.started = Stages(FALSE)
    /\ manta.keys = 1
    /\ manta.ended

(* ------------------ lib/metering.js: listMeteringReports --------------- *)

\* bounds of the metering model
MaxConcurrency == 3   \* args.concurrency
MaxOvertakes == 1     \* responses that arrive ahead of an earlier request
LastDay == 3          \* the day of args.endDate, counted from the epoch

\* args.ndays: one day, and a range of days
NDays == {1, 2}

\* hours of a day; the number of hourly reports expected per day
HoursPerDay == 24

\* null, for the count of a summary or storage report
NoCount == -1

\* Dates are held as hours since the epoch.
\* setUTCHours(0, 0, 0, 0)
DayStart(t) == (t \div HoursPerDay) * HoursPerDay
\* getUTCHours()
UTCHours(t) == t % HoursPerDay
\* toISOString() of a midnight: the key of a day in mrl_results
DateKey(t) == t \div HoursPerDay


RECURSIVE Enqueue_StorageHourly(_, _)
Enqueue_StorageHourly(current, end) ==
    IF current > end + 23 THEN <<>>
    ELSE <<[kind |-> "summary", date |-> current],
           [kind |-> "storage", date |-> current],
           [kind |-> "request", date |-> current],
           [kind |-> "compute", date |-> current]>>
         \o Enqueue_StorageHourly(current + 1, end)

\* the while loop of listMeteringReports: the requests pushed, in order
RECURSIVE Enqueue(_, _)
Enqueue(current, end) ==
    IF current > end + 23 THEN <<>>
    ELSE (IF UTCHours(current) = 0
          THEN <<[kind |-> "summary", date |-> current],
                 [kind |-> "storage", date |-> current]>>
          ELSE <<>>)
         \o <<[kind |-> "request", date |-> current],
               [kind |-> "compute", date |-> current]>>
         \o Enqueue(current + 1, end)

\* What Manta answers: a scenario ("complete", "midday" or "failures")
\* fixes the answer to every request.
\* name of the error given to the callback of manta.get or manta.info, or ""
RequestError(sc, rq) ==
    LET h == UTCHours(rq.date) IN
    CASE sc = "midday" /\ DateKey(rq.date) = LastDay /\ rq.kind = "summary"
            -> "NotFoundError"
      [] sc = "midday" /\ DateKey(rq.date) = LastDay
            /\ rq.kind \in {"request", "compute"} /\ h >= 18
            -> "ResourceNotFoundError"
      [] sc = "failures" /\ rq.kind = "storage" -> "InternalError"
      [] sc = "failures" /\ rq.kind = "compute" /\ h = 3
            -> "ConnectTimeoutError"
      [] sc = "failures" /\ rq.kind = "request" /\ h \in {0, 7}
            -> "NotFoundError"
      [] OTHER -> ""

\* name of the error the stream of a get emits, or ""
StreamError(sc, rq) ==
    IF sc = "failures" /\ rq.kind = "summary" /\ DateKey(rq.date) = LastDay
    THEN "ECONNRESET" ELSE ""

\* the data of a report that is read to its end
ReportData(sc, rq) ==
    IF rq.kind = "summary" /\ sc = "midday" THEN <<>>
    ELSE IF rq.kind = "summary" THEN <<"{", "}", "\n">>
    ELSE <<"{", "}", "\n", "{", "}", "\n">>

\* data.split(/\n/).length - 1
RECURSIVE NLines(_)
NLines(data) ==
    IF data = <<>> THEN 0
    ELSE (IF Head(data) = "\n" THEN 1 ELSE 0) + NLines(Tail(data))

Fail(l, what) == [l EXCEPT !.failed = IF @ = "" THEN what ELSE @]

\* While it has a task waiting and a worker free, the queue calls
\* doMakeRequest on the next task: the assertions at its head.
RECURSIVE DispatchAll(_)
DispatchAll(l) ==
    IF /\ l.queue.ndispatched < Len(l.queue.tasks)
       /\ Cardinality(l.queue.inflight) < l.queue.concurrency
    THEN LET i == l.queue.ndispatched + 1
             rq == l.queue.tasks[i]
             s == [l EXCEPT !.queue.ndispatched = i,
                            !.queue.inflight = @ \union {i}]
         IN  DispatchAll(IF rq.kind = "storage" /\ UTCHours(rq.date) # 0
                         THEN Fail(s, "doMakeRequest: storage hour")
                         ELSE s)
    ELSE l

RecordError_NotFoundToo(l, i, name) ==
    [l EXCEPT !.errors = Append(@, i)]

\* recordError
RecordError(l, i, name) ==
    IF name = "ResourceNotFoundError" \/ name = "NotFoundError"
    THEN l
    ELSE [l EXCEPT !.errors = Append(@, i)]

\* recordResult; count is NoCount when the caller passes none
RecordResult(l, i, count) ==
    LET rq == l.queue.tasks[i]
        datekey == DateKey(DayStart(rq.date))
    IN  IF datekey \notin DOMAIN l.results
        THEN Fail(l, "recordResult: no results for the day")
        ELSE IF rq.kind \in {"summary", "storage"}
        THEN IF l.results[datekey][rq.kind] # NoCount
             THEN Fail(l, "recordResult: result already set")
             ELSE IF count < 0
             THEN Fail(l, "recordResult: count")
             ELSE [l EXCEPT !.results[datekey][rq.kind] = count]
        ELSE [l EXCEPT !.results[datekey][rq.kind] =
                            Append(@, UTCHours(rq.date))]

\* the worker's callback(): the queue takes the task off and starts the
\* next one
TaskDone(l, i) ==
    DispatchAll([l EXCEPT !.queue.inflight = @ \ {i},
                          !.queue.reading = @ \ {i},
                          !.queue.completed = @ \union {i},
                          !.queue.overtakes =
                              IF \E j \in l.queue.inflight : j < i
                              THEN @ + 1 ELSE @])

RECURSIVE InsertSorted(_, _)
InsertSorted(x, sorted) ==
    IF sorted = <<>> THEN <<x>>
    ELSE IF x - Head(sorted) < 0 THEN <<x>> \o sorted
    ELSE <<Head(sorted)>> \o InsertSorted(x, Tail(sorted))

\* kindresults.slice().sort(function (a, b) { return (a - b); })
RECURSIVE SortNumeric(_)
SortNumeric(list) ==
    IF list = <<>> THEN <<>>
    ELSE InsertSorted(Head(list), SortNumeric(Tail(list)))

\* the for loop of checkMissing, from position i of the list and hour next
RECURSIVE MissingFrom(_, _, _)
MissingFrom(list, i, next) ==
    IF next >= HoursPerDay THEN <<>>
    ELSE IF i > Len(list) \/ list[i] # next
    THEN <<next>> \o MissingFrom(list, i, next + 1)
    ELSE MissingFrom(list, i + 1, next + 1)

CheckMissing_Unsorted(kindresults) ==
    IF Len(kindresults) = HoursPerDay THEN <<>>
    ELSE MissingFrom(kindresults, 1, 0)

\* checkMissing: what it pushes onto "missing"
CheckMissing(kindresults) ==
    IF Len(kindresults) = HoursPerDay THEN <<>>
    ELSE MissingFrom(SortNumeric(kindresults), 1, 0)

\* doFinishListing: the result given to the callback
FinishedListing(l) ==
    [byday |-> [d \in DOMAIN l.results |->
                   [summary |-> l.results[d].summary,
                    storage |-> l.results[d].storage,
                    compute |-> Len(l.results[d].compute),
                    compute_missing |-> CheckMissing(l.results[d].compute),
                    request |-> Len(l.results[d].request),
                    request_missing |-> CheckMissing(l.results[d].request)]],
     errors |-> l.errors]

\* the answer to the request of task i
ErrorOf(i) == RequestError(metering.scenario, mrl.queue.tasks[i])
StreamErrorOf(i) == StreamError(metering.scenario, mrl.queue.tasks[i])

MeterStep(l) ==
    /\ l.queue.overtakes <= MaxOvertakes
    /\ mrl' = l
    /\ UNCHANGED <<metering, mrl_calls>>
    /\ UNCHANGED <<aj, manta, aj_calls, dl, dl_calls, setcmp, r>>
    /\ UNCHANGED <<joinvars, mainvars, exit_status, auditvars, splitvars, extvars>>

\* the callback of manta.get or manta.info in doMakeRequest
RequestDone(i) ==
    /\ mrl.failed = ""
    /\ i \in mrl.queue.inflight \ mrl.queue.reading
    /\ MeterStep(
          IF ErrorOf(i) # ""
          THEN TaskDone(RecordError(mrl, i, ErrorOf(i)), i)
          ELSE IF mrl.queue.tasks[i].kind \in {"request", "compute"}
          THEN TaskDone(RecordResult(mrl, i, NoCount), i)
          ELSE [mrl EXCEPT !.queue.reading = @ \union {i}])

\* the callback of readToEnd in doMakeRequest: the stream has emitted
\* 'end' or 'error'
ReadDone(i) ==
    /\ mrl.failed = ""
    /\ i \in mrl.queue.reading
    /\ MeterStep(
          IF StreamErrorOf(i) # ""
          THEN TaskDone(RecordError(mrl, i, StreamErrorOf(i)), i)
          ELSE TaskDone(RecordResult(mrl, i,
                   NLines(ReportData(metering.scenario, mrl.queue.tasks[i]))),
                   i))

\* the 'end' listener of the queue: doFinishListing
QueueEnd ==
    /\ mrl.failed = ""
    /\ ~mrl.queue.ended
    /\ mrl.queue.ndispatched = Len(mrl.queue.tasks)
    /\ mrl.queue.inflight = {}
    /\ mrl' = [mrl EXCEPT !.queue.ended = TRUE]
    /\ mrl_calls' = Append(mrl_calls, [err |-> "", rv |-> FinishedListing(mrl)])
    /\ UNCHANGED metering
    /\ UNCHANGED <<aj, manta, aj_calls, dl, dl_calls, setcmp, r>>
    /\ UNCHANGED <<joinvars, mainvars, exit_status, auditvars, splitvars, extvars>>

\* ReportLister.listMeteringReports has returned: every request is pushed,
\* the first ones are with their worker and the queue is closed
MeterInit ==
    /\ \E ndays \in NDays, hour \in {0, 13}, c \in {1, MaxConcurrency},
          sc \in {"complete", "midday", "failures"} :
          LET end == DayStart(LastDay * HoursPerDay + hour)
              current == end - (ndays - 1) * HoursPerDay
          IN  /\ metering = [scenario |-> sc, mrl_ndays |-> ndays,
                             mrl_end |-> end]
              /\ mrl = DispatchAll(
                    [queue |-> [NoQueue EXCEPT
                                   !.tasks = Enqueue(current, end),
                                   !.concurrency = c],
                     results |->
                        [d \in {DateKey(t) : t \in
                                   {u \in current..(end + 23) :
                                       UTCHours(u) = 0}} |->
                            [summary |-> NoCount, storage |-> NoCount,
                             request |-> <<>>, compute |-> <<>>]],
                     errors |-> <<>>,
                     failed |-> ""])
    /\ mrl_calls = <<>>
    /\ AuditProgramsUnused
    /\ LibraryUnused("listMeteringReports")

MeterSpec ==
    /\ MeterInit
    /\ [][
          \/ \E i \in 1..Len(mrl.queue.tasks) : RequestDone(i)
          \/ \E i \in 1..Len(mrl.queue.tasks) : ReadDone(i)
          \/ QueueEnd
       ]_vars

(* --------------------------- C26, C27, C28 ----------------------------- *)

Range(seq) == {seq[k] : k \in 1..Len(seq)}

Ascending(seq) == \A j, k \in 1..Len(seq) : j < k => seq[j] < seq[k]

\* the days of the range, as keys of mrl_results
RangeDays ==
    (DateKey(metering.mrl_end) - metering.mrl_ndays + 1)..DateKey(metering.mrl_end)

Hours == 0..(HoursPerDay - 1)

\* one request per report of the range: a summary and a storage request at
\* hour 00 of each day, a request-report and a compute-report request for
\* each hour of each day
ExpectedRequests ==
    {[kind |-> kind, date |-> d * HoursPerDay] :
        kind \in {"summary", "storage"}, d \in RangeDays}
    \union
    {[kind |-> kind, date |-> d * HoursPerDay + h] :
        kind \in {"request", "compute"}, d \in RangeDays, h \in Hours}

\* C26: the queue holds, for each day of the range, exactly one summary and
\* one storage request, both at hour 00, and one request-report and one
\* compute-report request for each of the 24 hours, and nothing else;
\* mrl_results has an entry for exactly those days; no assertion of
\* doMakeRequest or recordResult fails under any completion order.
C26_OneRequestPerReport ==
    /\ mrl.failed = ""
    /\ DOMAIN mrl.results = RangeDays
    /\ Range(mrl.queue.tasks) = ExpectedRequests
    /\ Len(mrl.queue.tasks) = metering.mrl_ndays * (2 + 2 * HoursPerDay)
    /\ Cardinality(ExpectedRequests) = Len(mrl.queue.tasks)

\* Two days were listed, both results of a day are recorded, and a
\* response has overtaken another.
C26_Witness ==
    /\ metering.mrl_ndays = 2
    /\ mrl.queue.ended
    /\ mrl.queue.overtakes > 0
    /\ \E d \in RangeDays :
          mrl.results[d].summary >= 0 /\ mrl.results[d].storage >= 0

MissingHours(recorded) == Hours \ Range(recorded)

\* C27: in the result given to the callback, compute_missing and
\* request_missing of every day list in ascending order exactly the hours
\* no report was recorded for, and present plus missing is 24.
C27_MissingHours ==
    \A c \in Range(mrl_calls) :
        \A d \in DOMAIN c.rv.byday :
            LET day == c.rv.byday[d] IN
            /\ Ascending(day.compute_missing)
            /\ Range(day.compute_missing) = MissingHours(mrl.results[d].compute)
            /\ day.compute + Len(day.compute_missing) = HoursPerDay
            /\ Ascending(day.request_missing)
            /\ Range(day.request_missing) = MissingHours(mrl.results[d].request)
            /\ day.request + Len(day.request_missing) = HoursPerDay

\* The callback has run for a day whose compute reports were recorded out
\* of order and of which some are missing.
C27_Witness ==
    /\ mrl_calls # <<>>
    /\ \E d \in DOMAIN mrl.results :
          /\ ~Ascending(mrl.results[d].compute)
          /\ Len(mrl.results[d].compute) < HoursPerDay
          /\ Len(mrl.results[d].compute) > 0

NotFound(name) == name \in {"NotFoundError", "ResourceNotFoundError"}

\* the error a completed task ended with, or ""
FailureOf(i) == IF ErrorOf(i) # "" THEN ErrorOf(i) ELSE StreamErrorOf(i)

\* the data point of task i is missing from mrl_results
DataPointMissing(i) ==
    LET rq == mrl.queue.tasks[i]
        day == mrl.results[DateKey(rq.date)]
    IN  IF rq.kind \in {"summary", "storage"}
        THEN day[rq.kind] = NoCount
        ELSE UTCHours(rq.date) \notin Range(day[rq.kind])

\* C28: the callback is invoked at most once, without an error, and only
\* when every request pushed has completed; a request that failed with
\* NotFoundError or ResourceNotFoundError is not in errors and its data
\* point is missing; every request that failed otherwise is in errors
\* exactly once, and the requests after it are still made.
C28_ErrorsAndCallback ==
    /\ Len(mrl_calls) <= 1
    /\ \A c \in Range(mrl_calls) :
          /\ c.err = ""
          /\ mrl.queue.completed = 1..Len(mrl.queue.tasks)
          /\ mrl.queue.inflight = {}
          /\ c.rv.errors = mrl.errors
    /\ Range(mrl.errors) =
          {i \in mrl.queue.completed :
              FailureOf(i) # "" /\ ~NotFound(FailureOf(i))}
    /\ Cardinality(Range(mrl.errors)) = Len(mrl.errors)
    /\ \A i \in mrl.queue.completed :
          FailureOf(i) # "" => DataPointMissing(i)

\* The callback has run after requests failed both ways.
C28_Witness ==
    /\ Len(mrl_calls) = 1
    /\ Len(mrl.errors) > 2
    /\ \E i \in mrl.queue.completed : NotFound(FailureOf(i))
    /\ \E i, j \in mrl.queue.completed :
          i < j /\ FailureOf(i) # "" /\ ~NotFound(FailureOf(i))
             /\ FailureOf(j) = ""

(* ------------------------- lib/dumps.js: setCompare -------------------- *)

\* bounds of the dumps model
MaxList == 2          \* length of a list given to setCompare
MaxShards == 2        \* entries under dumpRoot, and shards requested
MaxDumpDays == 2      \* args.ndays

ShardNames == {"1.moray", "2.moray"}

\* setCompare.  lhsidx is held as the set of its own properties after
\* lhs.forEach; NotIn(s) is rv.isect.indexOf(s) == -1.
SetCompare(lhs, rhs) ==
    LET lhsidx == {lhs[k] : k \in 1..Len(lhs)} \ {"__proto__"}
        isect == SelectSeq(rhs, LAMBDA s : s \in lhsidx)
        NotIn(s) == \A k \in 1..Len(isect) : isect[k] # s
    IN  [isect |-> isect,
         lhsonly |-> SelectSeq(lhs, NotIn),
         rhsonly |-> SelectSeq(rhs, LAMBDA s : s \notin lhsidx)]

\* a caller calls setCompare(lhs, rhs)
SetCompareCall ==
    /\ ~setcmp.called
    /\ setcmp' = [setcmp EXCEPT !.rv = SetCompare(setcmp.lhs, setcmp.rhs),
                                !.called = TRUE]
    /\ UNCHANGED <<dl, dl_calls>>
    /\ UNCHANGED <<aj, manta, aj_calls, mrl, metering, mrl_calls, r>>
    /\ UNCHANGED <<joinvars, mainvars, exit_status, auditvars, splitvars, extvars>>

\* any two lists of strings
CompareInit ==
    /\ \E lhs, rhs \in SeqsUpTo(ShardNames \union {"__proto__"}, MaxList) :
          setcmp = [lhs |-> lhs, rhs |-> rhs, called |-> FALSE,
                    rv |-> [isect |-> <<>>, lhsonly |-> <<>>,
                            rhsonly |-> <<>>]]
    /\ AuditProgramsUnused
    /\ LibraryUnused("setCompare")

CompareSpec == CompareInit /\ [][SetCompareCall]_vars

(* ------------------------- lib/dumps.js: listDumps --------------------- *)

\* entries manta.ls can report under dumpRoot: distinct names
RootListings ==
    {l \in SeqsUpTo([type : {"directory", "object"}, name : ShardNames],
                    MaxShards) :
        \A j, k \in 1..Len(l) : j # k => l[j].name # l[k].name}

\* the callback of the waterfall: an error of a stage, or the first of
\* dl_errors, fails the listing
WaterfallDone(l, wferr) ==
    /\ dl' = [l EXCEPT !.stage = "done", !.wferr = wferr]
    /\ dl_calls' = Append(dl_calls,
                      IF wferr # "" \/ l.dl_errors > 0 THEN "err" ELSE "ok")

DumpStep ==
    /\ UNCHANGED setcmp
    /\ UNCHANGED <<aj, manta, aj_calls, mrl, metering, mrl_calls, r>>
    /\ UNCHANGED <<joinvars, mainvars, exit_status, auditvars, splitvars, extvars>>

\* listAllShards: the callback of manta.ls and the listeners of the lister
ListAllShardsDone ==
    /\ dl.stage = "listAllShards"
    /\ dl.failed = ""
    /\ \/ WaterfallDone(dl, "failed to list shards")
       \/ \E listing \in RootListings :
             /\ dl' = [dl EXCEPT
                   !.dl_foundshards =
                       [k \in 1..Len(SelectSeq(listing,
                               LAMBDA e : e.type = "directory")) |->
                           SelectSeq(listing,
                               LAMBDA e : e.type = "directory")[k].name],
                   !.stage = "selectShards"]
             /\ UNCHANGED dl_calls
    /\ DumpStep

\* selectShards
SelectShards ==
    /\ dl.stage = "selectShards"
    /\ dl.failed = ""
    /\ IF dl.dl_shards_null
       THEN /\ dl' = [dl EXCEPT !.dl_shards = dl.dl_foundshards,
                                !.dl_shards_null = FALSE,
                                !.stage = "enumDirectories"]
            /\ UNCHANGED dl_calls
       ELSE LET sets == SetCompare(dl.dl_shards, dl.dl_foundshards) IN
            IF Len(sets.lhsonly) > 0
            THEN WaterfallDone(dl, "requested shard not found")
            ELSE IF Len(sets.isect) = 0
            THEN WaterfallDone(dl, "no shards selected")
            ELSE /\ dl' = [dl EXCEPT !.dl_shards = sets.isect,
                                     !.stage = "enumDirectories"]
                 /\ UNCHANGED dl_calls
    /\ DumpStep

\* the while loop of enumDirectories: the tasks pushed, in order
RECURSIVE EnumTasks(_, _, _)
EnumTasks(current, end, shards) ==
    IF current > end THEN <<>>
    ELSE [k \in 1..Len(shards) |-> [shard |-> shards[k], date |-> current]]
         \o EnumTasks(current + HoursPerDay, end, shards)

\* While it has a task waiting and a worker free, the queue calls
\* doFetchShardDumpsForDay on the next task: the assertions at its head.
RECURSIVE DumpDispatchAll(_)
DumpDispatchAll(l) ==
    IF /\ l.ndispatched < Len(l.tasks)
       /\ Cardinality(l.inflight) < l.dl_concurrency
    THEN LET i == l.ndispatched + 1
             s == [l EXCEPT !.ndispatched = i, !.inflight = @ \union {i}]
         IN  DumpDispatchAll(
                 IF UTCHours(l.tasks[i].date) # 0
                 THEN [s EXCEPT !.failed = "doFetchShardDumpsForDay: hour"]
                 ELSE s)
    ELSE l

\* enumDirectories
EnumDirectories ==
    /\ dl.stage = "enumDirectories"
    /\ dl.failed = ""
    /\ dl' = DumpDispatchAll(
                [dl EXCEPT
                    !.tasks = EnumTasks(
                        dl.dl_end - (dl.dl_ndays - 1) * HoursPerDay,
                        dl.dl_end, dl.dl_shards),
                    !.stage = "fetching"])
    /\ UNCHANGED dl_calls
    /\ DumpStep

\* What Manta can hold in the directory of a shard for the day that starts
\* at "when": the dump alone or with unpacked objects, two dumps, a dump
\* uploaded late, dumps dated a day before or after, dumps dated more than
\* a day off, names that do not parse, a directory named like a dump.
\* The name of an entry is held by what parseDumpDirent reads of it: how
\* it starts, how it ends, the number of fields mod_strsplit finds between
\* the two, whether Date.UTC makes a date of them, and that date.
\* DumpFile is an object named moray-YYYY-mm-dd-HH-mm-ss.gz.
DumpDirectories(when) ==
    LET DumpFile(stime, mtime) ==
            [type |-> "object", mtime |-> mtime,
             name |-> [head |-> "moray-", nparts |-> 6, numeric |-> TRUE,
                       stime |-> stime, tail |-> ".gz"]]
        dump == DumpFile(when, when + 1)
        json == [dump EXCEPT !.name.head = "manta-", !.name.tail = ".json"]
    IN  << <<dump, json, DumpFile(when + 2, when + 3)>>,
           <<DumpFile(when + 1, when + 3), dump, json>>,
           <<DumpFile(when - HoursPerDay - 1, when), json,
             DumpFile(when + HoursPerDay, when + HoursPerDay + 1)>>,
           <<[dump EXCEPT !.name.numeric = FALSE],
             [dump EXCEPT !.name.nparts = 5], dump>>,
           <<[dump EXCEPT !.type = "directory"],
             DumpFile(when - HoursPerDay, when + 1),
             DumpFile(when + HoursPerDay + 1, when + HoursPerDay + 2)>>,
           <<DumpFile(when + HoursPerDay + 1, when + HoursPerDay + 2),
             [dump EXCEPT !.name.tail = ".json"],
             [dump EXCEPT !.name.head = "manta-"]>>,
           <<json, json, json>>,
           <<>> >>

\* the entries manta.ls emits for the directory of a shard and a day: the
\* first MaxEntries entries of one of DumpDirectories, each directory in
\* turn as "contents" goes through its values
DirEntries(contents, shard, when) ==
    LET all == DumpDirectories(when)
        n == (contents + DateKey(when)
                  + (IF shard = "1.moray" THEN 0 ELSE 3)) % Len(all)
        entries == all[n + 1]
    IN  SubSeq(entries, 1,
               IF Len(entries) < MaxEntries THEN Len(entries) ELSE MaxEntries)

\* parseDumpDirent: null, or the dump the entry describes
ParseDumpDirent(start, entry) ==
    IF entry.type # "object" THEN [null |-> TRUE]
    ELSE IF entry.name.head # "moray-" THEN [null |-> TRUE]
    ELSE IF entry.name.tail # ".gz" THEN [null |-> TRUE]
    ELSE IF entry.name.nparts # 6 THEN [null |-> TRUE]
    ELSE IF ~entry.name.numeric THEN [null |-> TRUE]
    ELSE [null |-> FALSE, name |-> entry.name, stime |-> entry.name.stime,
          mtime |-> entry.mtime, etime |-> entry.mtime - entry.name.stime,
          ended |-> entry.mtime - start]

OnEntry_LastMatchWins(st, when, entry) ==
    LET what == ParseDumpDirent(when, entry) IN
    IF what.null
    THEN [st EXCEPT !.unpacked = Append(@, entry.name)]
    ELSE IF (IF what.stime >= when THEN what.stime - when
             ELSE when - what.stime) > HoursPerDay
    THEN st
    ELSE [st EXCEPT !.dump = what]

\* the 'entry' listener of doFetchShardDumpsForDay; st holds its "dump" and
\* "unpacked", and 86400000 ms are HoursPerDay hours
OnEntry(st, when, entry) ==
    LET what == ParseDumpDirent(when, entry) IN
    IF what.null
    THEN [st EXCEPT !.unpacked = Append(@, entry.name)]
    ELSE IF (IF what.stime >= when THEN what.stime - when
             ELSE when - what.stime) > HoursPerDay
    THEN st
    ELSE IF ~st.dump.null
    THEN st
    ELSE [st EXCEPT !.dump = what]

\* the 'entry' events of one listing, in order
RECURSIVE OnEntries(_, _, _)
OnEntries(st, when, entries) ==
    IF entries = <<>> THEN st
    ELSE OnEntries(OnEntry(st, when, Head(entries)), when, Tail(entries))

\* the 'end' listener of doFetchShardDumpsForDay: the dump found, if any,
\* is stored in dl_dumps[whenkey][arg.shard], which must not be set yet;
\* a dump that ended 120 minutes after the start of the day was late
OnEnd(l, arg, st) ==
    IF st.dump.null THEN l
    ELSE IF \E d \in l.dl_dumps :
                d.whenkey = DateKey(arg.date) /\ d.shard = arg.shard
    THEN [l EXCEPT !.failed = "doFetchShardDumpsForDay: dump already set"]
    ELSE [l EXCEPT !.dl_dumps = @ \union
             {[whenkey |-> DateKey(arg.date), shard |-> arg.shard,
               name |-> st.dump.name, ended |-> st.dump.ended,
               unpacked |-> Len(st.unpacked) > 0,
               objects |-> st.unpacked,
               waslate |-> st.dump.ended >= 2]}]

\* the callback of manta.ls in doFetchShardDumpsForDay and the listeners
\* of its emitter: the directory is missing, the listing fails, or the
\* entries of the directory arrive and the listing ends
FetchDone(i) ==
    /\ dl.stage = "fetching"
    /\ dl.failed = ""
    /\ i \in dl.inflight
    /\ \E outcome \in {"NotFoundError", "InternalError", "listed"} :
          LET arg == dl.tasks[i]
              s == [dl EXCEPT
                      !.inflight = @ \ {i},
                      !.dl_errors =
                          IF outcome = "InternalError" THEN @ + 1 ELSE @,
                      !.listed =
                          IF outcome = "listed" THEN @ \union {i} ELSE @]
          IN  dl' = DumpDispatchAll(
                      IF outcome = "listed"
                      THEN OnEnd(s, arg,
                               OnEntries([dump |-> [null |-> TRUE],
                                          unpacked |-> <<>>], arg.date,
                                   DirEntries(dl.contents, arg.shard,
                                              arg.date)))
                      ELSE s)
    /\ UNCHANGED dl_calls
    /\ DumpStep

\* the 'end' listener of the queue in enumDirectories
DumpQueueEnd ==
    /\ dl.stage = "fetching"
    /\ dl.failed = ""
    /\ dl.ndispatched = Len(dl.tasks)
    /\ dl.inflight = {}
    /\ WaterfallDone(dl, "")
    /\ DumpStep

\* listDumps has returned: the waterfall has called manta.ls on dumpRoot
DumpInit ==
    /\ \E shards \in
              {[null |-> TRUE, list |-> <<>>]} \union
              {[null |-> FALSE, list |-> l] :
                  l \in SeqsUpTo(ShardNames, MaxShards)},
          ndays \in 1..MaxDumpDays, hour \in {0, 13},
          c \in 1..MaxConcurrency,
          contents \in 0..(Len(DumpDirectories(0)) - 1) :
          dl = [NoDumpLister EXCEPT
                   !.contents = contents,
                   !.args_shards = shards,
                   !.dl_shards = shards.list,
                   !.dl_shards_null = shards.null,
                   !.dl_ndays = ndays,
                   !.dl_end = DayStart(LastDay * HoursPerDay + hour),
                   !.dl_concurrency = c,
                   !.stage = "listAllShards"]
    /\ dl_calls = <<>>
    /\ AuditProgramsUnused
    /\ LibraryUnused("listDumps")

DumpSpec ==
    /\ DumpInit
    /\ [][
          \/ ListAllShardsDone
          \/ SelectShards
          \/ EnumDirectories
          \/ \E i \in 1..Len(dl.tasks) : FetchDone(i)
          \/ DumpQueueEnd
       ]_vars

(* ------------------------------ C29, C30 ------------------------------- *)

NoDuplicates(list) ==
    \A j, k \in 1..Len(list) : j # k => list[j] # list[k]

\* C29: setCompare returns lists that as sets are lhs /\ rhs, lhs \ rhs and
\* rhs \ lhs, and no string appears twice in any of them.
C29_SetCompare ==
    setcmp.called =>
        /\ Range(setcmp.rv.isect) = Range(setcmp.lhs) \intersect Range(setcmp.rhs)
        /\ Range(setcmp.rv.lhsonly) = Range(setcmp.lhs) \ Range(setcmp.rhs)
        /\ Range(setcmp.rv.rhsonly) = Range(setcmp.rhs) \ Range(setcmp.lhs)
        /\ NoDuplicates(setcmp.rv.isect)
        /\ NoDuplicates(setcmp.rv.lhsonly)
        /\ NoDuplicates(setcmp.rv.rhsonly)

\* selectShards has run
PastSelect == dl.stage \in {"enumDirectories", "fetching", "done"}
                /\ dl.wferr # "failed to list shards"

\* the shards the listing is left with
SelectedShards ==
    IF dl.args_shards.null THEN Range(dl.dl_foundshards)
    ELSE Range(dl.args_shards.list)

\* the days of the range, as midnights
DumpDays ==
    {dl.dl_end - k * HoursPerDay : k \in 0..(dl.dl_ndays - 1)}

\* C30: once selectShards has run, the listing has failed if a requested
\* shard was not found or if no shard is left to scan; otherwise the
\* shards are the requested ones, or all those found when none were
\* requested, and enumDirectories pushes exactly one fetch per day of the
\* range and selected shard.
C30_ListDumps ==
    PastSelect =>
        /\ (~dl.args_shards.null
               /\ ~(Range(dl.args_shards.list) \subseteq Range(dl.dl_foundshards)))
              => (dl.wferr # "" /\ dl_calls = <<"err">> /\ dl.tasks = <<>>)
        /\ SelectedShards = {}
              => (dl.wferr # "" /\ dl_calls = <<"err">> /\ dl.tasks = <<>>)
        /\ dl.wferr = "" =>
              /\ Range(dl.dl_shards) = SelectedShards
              /\ dl.stage \in {"fetching", "done"} =>
                    /\ Range(dl.tasks) =
                          {[shard |-> s, date |-> d] :
                              s \in SelectedShards, d \in DumpDays}
                    /\ NoDuplicates(dl.tasks)

(* -------------------------------- C31 ---------------------------------- *)

\* the entry is a dump dated within one day of "when"
DumpWithinADay(entry, when) ==
    /\ entry.type = "object"
    /\ entry.name.head = "moray-" /\ entry.name.tail = ".gz"
    /\ entry.name.nparts = 6 /\ entry.name.numeric
    /\ entry.name.stime - when \in (0 - HoursPerDay)..HoursPerDay

\* the dumps recorded for the day and shard of task i
RecordedFor(i) ==
    {d \in dl.dl_dumps : /\ d.whenkey = DateKey(dl.tasks[i].date)
                         /\ d.shard = dl.tasks[i].shard}

\* what manta.ls reports for task i
EntriesOf(i) == DirEntries(dl.contents, dl.tasks[i].shard, dl.tasks[i].date)

\* C31: for each day and shard at most one dump is recorded in dl_dumps.
\* Once the listing of a directory has ended, the dump recorded for it is
\* the first entry that is a dump dated within one day of the day (none
\* when there is no such entry), whatever matches follow it; nothing is
\* recorded for a directory whose listing has not ended; and the assertion
\* that no dump is recorded yet for the day and shard does not fail, in
\* whatever order the fetches complete and whatever shards were requested.
C31_OneDumpPerDayAndShard ==
    /\ dl.failed = ""
    /\ \A d, e \in dl.dl_dumps :
          (d.whenkey = e.whenkey /\ d.shard = e.shard) => d = e
    /\ \A d \in dl.dl_dumps :
          \E i \in dl.listed : d \in RecordedFor(i)
    /\ \A i \in dl.listed :
          LET entries == EntriesOf(i)
              matches == {k \in 1..Len(entries) :
                             DumpWithinADay(entries[k], dl.tasks[i].date)}
          IN  IF matches = {} THEN RecordedFor(i) = {}
              ELSE \E k \in matches :
                      /\ \A j \in matches : k <= j
                      /\ {d.name : d \in RecordedFor(i)} = {entries[k].name}

\* a shard was requested twice, and a fetch has completed ahead of an
\* earlier one with a directory that holds two dumps for the day, the
\* first of which is recorded
C31_Witness ==
    /\ dl.stage = "fetching"
    /\ \E j, k \in 1..Len(dl.args_shards.list) :
          j # k /\ dl.args_shards.list[j] = dl.args_shards.list[k]
    /\ \E i \in dl.listed :
          /\ \E h \in dl.inflight : h < i
          /\ Cardinality({k \in 1..Len(EntriesOf(i)) :
                 DumpWithinADay(EntriesOf(i)[k], dl.tasks[i].date)}) > 1
          /\ RecordedFor(i) # {}

(* -------------------- lib/dcaudit.js: reportDcAuditJob ----------------- *)

MaxStat == 2          \* stats.errors and stats.outputs of a job
MaxData == 3          \* characters of out.txt

\* the callback of the pipeline of reportDcAuditJob, with the error of a
\* stage or, after the last stage, without one
ReportPipelineDone(l, error) ==
    [l EXCEPT
        !.waiting = "done",
        !.calls = Append(@,
            IF error # "" THEN [err |-> error, result |-> [null |-> TRUE]]
            ELSE [err |-> "",
                  result |-> [null |-> FALSE,
                              rawStream |-> l.args_r_object]])]

\* the callback reportFetchJobState gives to fetchJobState, called with a
\* job state: r_jobstate is set, and the pipeline goes on to
\* reportCheckJobState and, if the job passes, to the manta.get of
\* reportFetchJobOutputs
ReportCheckJobState(l, result) ==
    LET js == result
        s == [l EXCEPT !.r_jobstate = [null |-> FALSE, js |-> result]]
    IN  IF js.state # "done"
        THEN ReportPipelineDone(s, "still running")
        ELSE IF ~js.timeArchiveDone
        THEN ReportPipelineDone(s, "not yet archived")
        ELSE IF js.stats.errors # 0
        THEN ReportPipelineDone(s, "emitted errors")
        ELSE IF js.stats.outputs # 1
        THEN ReportPipelineDone(s, "wrong number of outputs emitted")
        ELSE [s EXCEPT !.waiting = "get out.txt"]

ReportStep ==
    /\ UNCHANGED <<aj, manta, aj_calls, mrl, metering, mrl_calls, dl,
                   dl_calls, setcmp>>
    /\ UNCHANGED <<joinvars, mainvars, exit_status, auditvars, splitvars, extvars>>

\* fetchJobState: the callback of manta.job.  The job is live, or it is
\* not found and may be archived, or the request fails.
JobDone ==
    /\ r.waiting = "job"
    /\ \E outcome \in {"ok", "NotFoundError", "InternalError"} :
          r' = IF outcome = "ok" THEN ReportCheckJobState(r, r.job)
               ELSE IF outcome = "NotFoundError"
               THEN [r EXCEPT !.waiting = "get job.json"]
               ELSE ReportPipelineDone(r, "fetch job")
    /\ ReportStep

\* fetchJobState: the callback of manta.get on job.json
JobJsonGetDone ==
    /\ r.waiting = "get job.json"
    /\ \E failed \in BOOLEAN :
          r' = IF failed THEN ReportPipelineDone(r, "fetch job.json")
               ELSE [r EXCEPT !.waiting = "read job.json"]
    /\ ReportStep

\* fetchJobState: the callback of readToEndJson on job.json
JobJsonReadDone ==
    /\ r.waiting = "read job.json"
    /\ \E failed \in BOOLEAN :
          r' = IF failed THEN ReportPipelineDone(r, "parse job.json")
               ELSE ReportCheckJobState(r, r.job)
    /\ ReportStep

\* reportFetchJobOutputs: the callback of manta.get on out.txt
OutputsGetDone ==
    /\ r.waiting = "get out.txt"
    /\ \E failed \in BOOLEAN :
          r' = IF failed THEN ReportPipelineDone(r, "fetch out.txt")
               ELSE [r EXCEPT !.waiting = "read out.txt"]
    /\ ReportStep

\* reportFetchJobOutputs: the callback of readToEnd on out.txt, with an
\* error of the stream or with its data.  data.split('\n') has one element
\* more than the data has newlines; with two elements, lines[1] is what
\* follows the newline and lines[0] what precedes it.  The pipeline goes
\* on to the manta.get of reportFetchJobOutputContents.
OutputsReadDone ==
    /\ r.waiting = "read out.txt"
    /\ \/ r' = ReportPipelineDone(r, "read out.txt")
       \/ \E data \in SeqsUpTo({"p", "\n"}, MaxData) :
             r' = IF NLines(data) + 1 # 2 \/ data[Len(data)] # "\n"
                  THEN ReportPipelineDone(r, "unexpected format")
                  ELSE [r EXCEPT
                           !.r_output_path =
                               [null |-> FALSE,
                                path |-> SubSeq(data, 1, Len(data) - 1)],
                           !.waiting = "get output"]
    /\ ReportStep

\* reportFetchJobOutputContents: the callback of manta.get on the output
\* object; it is the last function of the pipeline
OutputContentsGetDone ==
    /\ r.waiting = "get output"
    /\ \E failed \in BOOLEAN :
          r' = IF failed THEN ReportPipelineDone(r, "fetch output")
               ELSE ReportPipelineDone(
                        [r EXCEPT !.r_object = "stream of the output object"],
                        "")
    /\ ReportStep

\* reportDcAuditJob has returned: the pipeline has called manta.job
ReportInit ==
    /\ \E state \in {"running", "done"}, archived \in BOOLEAN,
          errors \in 0..MaxStat, outputs \in 0..MaxStat :
          r = [NoJobReport EXCEPT
                  !.job = [state |-> state, timeArchiveDone |-> archived,
                           stats |-> [errors |-> errors,
                                      outputs |-> outputs]],
                  !.waiting = "job"]
    /\ AuditProgramsUnused
    /\ LibraryUnused("reportDcAuditJob")

ReportSpec ==
    /\ ReportInit
    /\ [][
          \/ JobDone
          \/ JobJsonGetDone
          \/ JobJsonReadDone
          \/ OutputsGetDone
          \/ OutputsReadDone
          \/ OutputContentsGetDone
       ]_vars

(* -------------------------------- C32 ---------------------------------- *)

\* the job passes reportCheckJobState
JobReportable ==
    /\ r.job.state = "done"
    /\ r.job.timeArchiveDone
    /\ r.job.stats.errors = 0
    /\ r.job.stats.outputs = 1

\* C32: when the job is done, archived, reports zero errors and exactly one
\* output, reportDcAuditJob (its requests to Manta succeeding, so that the
\* output object was opened) calls back without error, with a result whose
\* rawStream is the stream opened on the job's output object; in every
\* other case it calls back with an error and no result.
C32_ReportResult ==
    r.calls # <<>> =>
        /\ (JobReportable /\ r.r_object # "null") =>
              /\ r.calls[1].err = ""
              /\ ~r.calls[1].result.null
              /\ r.calls[1].result.rawStream = r.r_object
        /\ ~JobReportable =>
              /\ r.calls[1].err # ""
              /\ r.calls[1].result.null

====
